---- MODULE Spec2Model ----
(***************************************************************************)
(* Model of the price-check pipeline of src/price-checker-api.py:         *)
(* the consolidation of offers per canonical store (consolidate_prices),  *)
(* the assembly of the response (api_price_check) and the concurrent      *)
(* scrape orchestrator (search_prices_oxylabs, search_prices_direct).     *)
(*                                                                         *)
(* Prices are Python floats in the source.  The model keeps them as       *)
(* integers counted in centavos (1 peso = 100), so that 38.50 is 3850.    *)
(* Text is kept as sequences of one-character strings wherever the code   *)
(* looks inside it (substring tests, regular expressions, float()).       *)
(***************************************************************************)
EXTENDS Integers, Sequences, FiniteSets, TLC

VARIABLES
    pc,            \* position of the endpoint handler
    request,       \* the request body, as far as the handler reads it
    env,           \* the process: whether the scraping credentials are set
    google_urls,   \* search_prices_oxylabs: the candidate URLs
    task,          \* the futures of the executor: state and result of each
    yielded,       \* the futures as_completed has handed to the collector
    orch_pc,       \* position of the orchestrator
    all_results,   \* the orchestrator's list of collected results
    windows,       \* history: the task classes whose collection has run
    all_prices,    \* api_price_check: the list handed to consolidate_prices
    consolidated,  \* the dict returned by consolidate_prices, in insertion order
    response       \* the HTTP response of the endpoint

\* app.py, check_price
VARIABLES
    cp_pc,         \* position of check_price
    cp_env,        \* the process: whether the provider credentials are set
    cp_request,    \* the request body, as far as check_price reads it
    search_query,  \* check_price: the provider query built from the request
    oxylabs_data,  \* what _search_with_oxylabs_shopping returned
    cp_response    \* the HTTP response of check_price

\* price-checker-api.py, api_price_check_stream
VARIABLES
    st_pc,         \* position of the generator generate()
    st_request,    \* the request body, as far as generate() reads it
    product_info,  \* generate(): the product identified so far
    events         \* the events generate() has yielded, in order

\* price-checker-api.py, calculate_product_match_score
VARIABLES
    sc_pc,         \* which calls of the scoring function have returned
    search_name,   \* the text searched for
    found_name,    \* the title found
    match_score,   \* calculate_product_match_score(search_name, found_name)
    reverse_score  \* calculate_product_match_score(found_name, search_name)

\* price-checker-api.py, extract_products_from_html
VARIABLES
    ex_pc,         \* the strategy extract_products_from_html is at
    html,          \* the page, by what each strategy's patterns find in it
    products,      \* the list of (title, price) pairs built so far
    consulted      \* history: the strategies whose code has run

\* price-checker-api.py, the barcode on its way through api_price_check
VARIABLES
    bc_pc,            \* position of api_price_check
    bc_request,       \* the request body: names present, the scraped barcode
    bc_product_info,  \* api_price_check: product_info
    search_term,      \* search_google_for_prices: the term of the barcode search
    result_product    \* the product summary of the response

\* price-checker-api.py, the offer selected from one page
VARIABLES
    sel_pc,        \* "page", or the scraper that has made its selection
    sel_query,     \* the product name the candidates are scored against
    page,          \* the candidates of the page and the last-resort price
    first_keyword, \* the keyword list(search_keywords) puts first in this process
    selected       \* the offers the scraper reports for the page: none or one

\* price-checker-api.py, search_prices_oxylabs: discovery and submission
VARIABLES
    dp_pc,         \* position of search_prices_oxylabs up to the submission
    dp_request,    \* product_info: whether a name and a barcode are known
    dp_found,      \* what each search pass returns when it is run
    searches,      \* history: the search passes run, in order
    dp_urls,       \* google_urls as built so far
    dp_mode,       \* which function submitted the tasks
    dp_tasks       \* the tasks submitted to the executor

\* price-checker-api.py, the AI adapters
VARIABLES
    ad_pc,           \* "call", or the adapter that has returned, or "consolidated"
    reply,           \* the provider's reply to the adapter's request
    ad_prices,       \* the list the adapter returned
    ad_consolidated  \* consolidate_prices of that list

\* price-checker-api.py, one provider call over HTTP
VARIABLES
    ht_pc,         \* "sending" while attempts are made, then "delivered"
    http_call,     \* the calling function and what the retry policy does
    attempts       \* history: the outcome of each attempt, in order

\* price-checker-api.py, one task or adapter call
VARIABLES
    tk_pc,         \* position in the function, "returned" or "raised" at the end
    task_call,     \* the function called and what its provider does
    tk_exc,        \* history: the exception raised inside the function, or "none"
    tk_result      \* the returned value: "None", "[]" or "offers"

\* price-checker-api.py, consolidate_prices applied to its own result
VARIABLES
    rc_pc,         \* "input", then "once", then "twice"
    rc_prices,     \* the list of offers handed to consolidate_prices
    rc_once,       \* consolidate_prices(rc_prices)
    rc_twice       \* consolidate_prices of the entries of rc_once

\* price-checker-api.py, search_products_in_database
VARIABLES
    db_pc,         \* "start", "polling", "fetching" or "returned"
    polls,         \* status checks made so far
    observed,      \* the state the last status check returned, "none" before
    fetched,       \* history: get_query_results was called
    db_result      \* "pending", then "empty" or "products"

endpoint_vars ==
    <<pc, request, env, google_urls, task, yielded, orch_pc, all_results,
      windows, all_prices, consolidated, response>>

app_vars == <<cp_pc, cp_env, cp_request, search_query, oxylabs_data, cp_response>>

\* the variables of the components other than the price-check endpoint
stream_vars == <<st_pc, st_request, product_info, events>>

score_vars == <<sc_pc, search_name, found_name, match_score, reverse_score>>

extract_vars == <<ex_pc, html, products, consulted>>

barcode_vars == <<bc_pc, bc_request, bc_product_info, search_term, result_product>>

select_vars == <<sel_pc, sel_query, page, first_keyword, selected>>

plan_vars == <<dp_pc, dp_request, dp_found, searches, dp_urls, dp_mode, dp_tasks>>

adapter_vars == <<ad_pc, reply, ad_prices, ad_consolidated>>

http_vars == <<ht_pc, http_call, attempts>>

task_vars == <<tk_pc, task_call, tk_exc, tk_result>>

repeat_vars == <<rc_pc, rc_prices, rc_once, rc_twice>>

database_vars == <<db_pc, polls, observed, fetched, db_result>>

ext_vars == <<app_vars, stream_vars, score_vars, extract_vars, barcode_vars, select_vars, plan_vars, adapter_vars, http_vars, task_vars, repeat_vars, database_vars>>

vars == <<endpoint_vars, ext_vars>>

\* what the actions of one component leave alone
not_app_vars == <<endpoint_vars, stream_vars, score_vars, extract_vars, barcode_vars, select_vars, plan_vars, adapter_vars, http_vars, task_vars, repeat_vars, database_vars>>
not_stream_vars == <<endpoint_vars, app_vars, score_vars, extract_vars, barcode_vars, select_vars, plan_vars, adapter_vars, http_vars, task_vars, repeat_vars, database_vars>>
not_score_vars == <<endpoint_vars, app_vars, stream_vars, extract_vars, barcode_vars, select_vars, plan_vars, adapter_vars, http_vars, task_vars, repeat_vars, database_vars>>
not_extract_vars == <<endpoint_vars, app_vars, stream_vars, score_vars, barcode_vars, select_vars, plan_vars, adapter_vars, http_vars, task_vars, repeat_vars, database_vars>>
not_barcode_vars == <<endpoint_vars, app_vars, stream_vars, score_vars, extract_vars, select_vars, plan_vars, adapter_vars, http_vars, task_vars, repeat_vars, database_vars>>
not_select_vars == <<endpoint_vars, app_vars, stream_vars, score_vars, extract_vars, barcode_vars, plan_vars, adapter_vars, http_vars, task_vars, repeat_vars, database_vars>>
not_plan_vars == <<endpoint_vars, app_vars, stream_vars, score_vars, extract_vars, barcode_vars, select_vars, adapter_vars, http_vars, task_vars, repeat_vars, database_vars>>
not_adapter_vars == <<endpoint_vars, app_vars, stream_vars, score_vars, extract_vars, barcode_vars, select_vars, plan_vars, http_vars, task_vars, repeat_vars, database_vars>>
not_http_vars == <<endpoint_vars, app_vars, stream_vars, score_vars, extract_vars, barcode_vars, select_vars, plan_vars, adapter_vars, task_vars, repeat_vars, database_vars>>
not_task_vars == <<endpoint_vars, app_vars, stream_vars, score_vars, extract_vars, barcode_vars, select_vars, plan_vars, adapter_vars, http_vars, repeat_vars, database_vars>>
not_repeat_vars == <<endpoint_vars, app_vars, stream_vars, score_vars, extract_vars, barcode_vars, select_vars, plan_vars, adapter_vars, http_vars, task_vars, database_vars>>
not_database_vars == <<endpoint_vars, app_vars, stream_vars, score_vars, extract_vars, barcode_vars, select_vars, plan_vars, adapter_vars, http_vars, task_vars, repeat_vars>>

orch_vars == <<request, env, google_urls, task, yielded, orch_pc, all_results,
               windows>>

----------------------------------------------------------------------------
(* Bounds of the model *)

\* longest list of offers handed to consolidate_prices
MaxOffers == 2

\* longest list one search pass returns
MaxFound == 1

\* how many stores of priority_stores and of universal_stores are scheduled:
\* the direct tasks are alike and independent, the model runs the first ones
MaxStoreTasks == 1

----------------------------------------------------------------------------
(* Text helpers *)

Pesos(n) == n * 100

UpperLetters == <<"A","B","C","D","E","F","G","H","I","J","K","L","M",
                  "N","O","P","Q","R","S","T","U","V","W","X","Y","Z">>
LowerLetters == <<"a","b","c","d","e","f","g","h","i","j","k","l","m",
                  "n","o","p","q","r","s","t","u","v","w","x","y","z">>

\* str.lower() on one character
LowerChar(c) ==
    IF \E i \in 1..Len(UpperLetters) : UpperLetters[i] = c
    THEN LowerLetters[CHOOSE i \in 1..Len(UpperLetters) : UpperLetters[i] = c]
    ELSE c

\* str.lower()
Lower(s) == [i \in 1..Len(s) |-> LowerChar(s[i])]

\* needle in hay
Contains(hay, needle) ==
    \E i \in 1..(Len(hay) - Len(needle) + 1) :
        SubSeq(hay, i, i + Len(needle) - 1) = needle

\* The store display names the model draws from, with their spelling.
Spelling ==
    "Walmart" :> <<"W", "a", "l", "m", "a", "r", "t">> @@
    "walmart.com.mx" :> <<"w", "a", "l", "m", "a", "r", "t", ".", "c", "o", "m", ".", "m", "x">> @@
    "Walmart Mexico" :> <<"W", "a", "l", "m", "a", "r", "t", " ", "M", "e", "x", "i", "c", "o">> @@
    "Superama" :> <<"S", "u", "p", "e", "r", "a", "m", "a">> @@
    "Amazon Mexico" :> <<"A", "m", "a", "z", "o", "n", " ", "M", "e", "x", "i", "c", "o">> @@
    "Chedraui" :> <<"C", "h", "e", "d", "r", "a", "u", "i">> @@
    "HEB" :> <<"H", "E", "B">> @@
    "Farmacias Guadalajara" :> <<"F", "a", "r", "m", "a", "c", "i", "a", "s", " ", "G", "u", "a", "d", "a", "l", "a", "j", "a", "r", "a">> @@
    "Soriana" :> <<"S", "o", "r", "i", "a", "n", "a">> @@
    "Farmacias del Ahorro" :> <<"F", "a", "r", "m", "a", "c", "i", "a", "s", " ", "d", "e", "l", " ", "A", "h", "o", "r", "r", "o">> @@
    "La Comer" :> <<"L", "a", " ", "C", "o", "m", "e", "r">> @@
    "Sam's Club" :> <<"S", "a", "m", "'", "s", " ", "C", "l", "u", "b">>

AllStoreNames == DOMAIN Spelling

----------------------------------------------------------------------------
(* consolidate_prices: normalisation of the store name *)

\* The if/elif chain of consolidate_prices, in its order: keyword, store_key.
StoreKeywords == <<
    [kw |-> <<"a", "m", "a", "z", "o", "n">>, key |-> "Amazon Mexico"],
    [kw |-> <<"w", "a", "l", "m", "a", "r", "t">>, key |-> "Walmart Mexico"],
    [kw |-> <<"m", "e", "r", "c", "a", "d", "o">>, key |-> "Mercado Libre"],
    [kw |-> <<"s", "o", "r", "i", "a", "n", "a">>, key |-> "Soriana"],
    [kw |-> <<"c", "h", "e", "d", "r", "a", "u", "i">>, key |-> "Chedraui"],
    [kw |-> <<"g", "u", "a", "d", "a", "l", "a", "j", "a", "r", "a">>, key |-> "Farmacias Guadalajara"],
    [kw |-> <<"a", "h", "o", "r", "r", "o">>, key |-> "Farmacias del Ahorro"],
    [kw |-> <<"b", "e", "n", "a", "v", "i", "d", "e", "s">>, key |-> "Farmacias Benavides"],
    [kw |-> <<"s", "a", "m">>, key |-> "Sam's Club"],
    [kw |-> <<"c", "o", "s", "t", "c", "o">>, key |-> "Costco"],
    [kw |-> <<"h", "e", "b">>, key |-> "HEB"],
    [kw |-> <<"l", "i", "v", "e", "r", "p", "o", "o", "l">>, key |-> "Liverpool"],
    [kw |-> <<"c", "o", "p", "p", "e", "l">>, key |-> "Coppel"],
    [kw |-> <<"l", "a", "c", "o", "m", "e", "r">>, key |-> "La Comer"],
    [kw |-> <<"l", "a", " ", "c", "o", "m", "e", "r">>, key |-> "La Comer"] >>

\* A normalisation that forgets the table: every display name is its own key.
NormalizeStoreName_Raw(store) == store

\* store_key of a display name: the first keyword found in store.lower(),
\* otherwise the display name itself.
NormalizeStoreName(store) ==
    LET store_lower == Lower(Spelling[store])
        hits == {i \in 1..Len(StoreKeywords) :
                    Contains(store_lower, StoreKeywords[i].kw)}
    IN  IF hits = {} THEN store
        ELSE StoreKeywords[CHOOSE i \in hits : \A j \in hits : i <= j].key

\* NormalizeStoreName, computed once per display name.
store_key_of[store \in AllStoreNames] == NormalizeStoreName(store)

----------------------------------------------------------------------------
(* consolidate_prices: the price of an item *)

\* The raw 'price' of an item: a number, a string, or None.
NumPrice(v) == [t |-> "num", v |-> v, s |-> <<>>]
StrPrice(s) == [t |-> "str", v |-> 0, s |-> s]
NonePrice   == [t |-> "none", v |-> 0, s |-> <<>>]

Digits == <<"0","1","2","3","4","5","6","7","8","9">>
IsDigit(c) == \E i \in 1..10 : Digits[i] = c
DigitValue(c) == (CHOOSE i \in 1..10 : Digits[i] = c) - 1

\* Python truthiness of the raw price: `if not price: continue`
Truthy(price) ==
    CASE price.t = "none" -> FALSE
      [] price.t = "num"  -> price.v # 0
      [] price.t = "str"  -> price.s # <<>>

\* re.sub(r'[^\d.]', '', price)
KeepDigitsAndDots(s) == SelectSeq(s, LAMBDA c : IsDigit(c) \/ c = ".")

RECURSIVE DigitsToInt(_)
DigitsToInt(ds) ==
    IF ds = <<>> THEN 0
    ELSE 10 * DigitsToInt(SubSeq(ds, 1, Len(ds) - 1)) + DigitValue(ds[Len(ds)])

DotPositions(s) == {i \in 1..Len(s) : s[i] = "."}

\* float() accepts a text of digits and dots iff it has a digit and at most
\* one dot.
FloatParses(s) ==
    /\ Cardinality(DotPositions(s)) <= 1
    /\ \E i \in 1..Len(s) : IsDigit(s[i])

\* float() of such a text, in centavos (texts of the model have at most two
\* decimals).
FloatOf(s) ==
    IF DotPositions(s) = {} THEN Pesos(DigitsToInt(s))
    ELSE LET d == CHOOSE i \in DotPositions(s) : TRUE
             whole == SubSeq(s, 1, d - 1)
             frac == SubSeq(s, d + 1, Len(s))
             cents == IF Len(frac) = 0 THEN 0
                      ELSE IF Len(frac) = 1 THEN 10 * DigitsToInt(frac)
                      ELSE DigitsToInt(SubSeq(frac, 1, 2))
         IN  Pesos(DigitsToInt(whole)) + cents

\* whether the try block that converts the price completes
PriceConverts(price) ==
    IF price.t = "str" THEN FloatParses(KeepDigitsAndDots(price.s)) ELSE TRUE

\* the float the try block yields
PriceToFloat(price) ==
    IF price.t = "str" THEN FloatOf(KeepDigitsAndDots(price.s)) ELSE price.v

----------------------------------------------------------------------------
(* consolidate_prices: the merge *)

\* The entry consolidate_prices stores for an item.
Entry(store_key, price, price_item, estimated) ==
    [store |-> store_key, price |-> price, url |-> price_item.url,
     source_api |-> price_item.source_api, estimated |-> estimated]

\* stores.get(store_key): the position of the key in the dict, 0 for None.
Lookup(stores, store_key) ==
    IF \E i \in 1..Len(stores) : stores[i].store = store_key
    THEN CHOOSE i \in 1..Len(stores) : stores[i].store = store_key
    ELSE 0

\* A merge that keeps the lowest price whatever the provenance.
ConsolidateItem_LowestWins(stores, price_item) ==
    IF ~Truthy(price_item.price) \/ ~PriceConverts(price_item.price) THEN stores
    ELSE LET store_key == store_key_of[price_item.store]
             price == PriceToFloat(price_item.price)
             i == Lookup(stores, store_key)
         IN  IF i = 0
             THEN Append(stores, Entry(store_key, price, price_item, price_item.estimated))
             ELSE IF price < stores[i].price
             THEN [stores EXCEPT ![i] = Entry(store_key, price, price_item, price_item.estimated)]
             ELSE stores

\* A merge that keeps the higher price within a provenance class.
ConsolidateItem_HighestInClass(stores, price_item) ==
    IF ~Truthy(price_item.price) \/ ~PriceConverts(price_item.price) THEN stores
    ELSE LET store_key == store_key_of[price_item.store]
             price == PriceToFloat(price_item.price)
             i == Lookup(stores, store_key)
         IN  IF i = 0
             THEN Append(stores, Entry(store_key, price, price_item, price_item.estimated))
             ELSE IF stores[i].estimated /\ ~price_item.estimated
             THEN [stores EXCEPT ![i] = Entry(store_key, price, price_item, FALSE)]
             ELSE IF stores[i].estimated = price_item.estimated /\ price > stores[i].price
             THEN [stores EXCEPT ![i] = Entry(store_key, price, price_item, price_item.estimated)]
             ELSE stores

\* One iteration of the loop of consolidate_prices over all_prices.
ConsolidateItem(stores, price_item) ==
    LET price == price_item.price
        is_estimated == price_item.estimated
    IN  IF ~Truthy(price) THEN stores
        ELSE LET store_key == store_key_of[price_item.store]
             IN  IF ~PriceConverts(price) THEN stores
                 ELSE LET p == PriceToFloat(price)
                          i == Lookup(stores, store_key)
                      IN  IF i = 0
                          THEN Append(stores, Entry(store_key, p, price_item, is_estimated))
                          ELSE IF stores[i].estimated /\ ~is_estimated
                          THEN [stores EXCEPT ![i] = Entry(store_key, p, price_item, FALSE)]
                          ELSE IF stores[i].estimated = is_estimated /\ p < stores[i].price
                          THEN [stores EXCEPT ![i] = Entry(store_key, p, price_item, is_estimated)]
                          ELSE stores

RECURSIVE consolidate_prices(_)
\* consolidate_prices(all_prices): the dict, as the sequence of its values in
\* insertion order.
consolidate_prices(items) ==
    IF items = <<>> THEN <<>>
    ELSE ConsolidateItem(consolidate_prices(SubSeq(items, 1, Len(items) - 1)),
                         items[Len(items)])

----------------------------------------------------------------------------
(* api_price_check: the response *)

RECURSIVE InsertByPrice(_, _)
\* insert e after every entry whose price is not greater (a stable sort)
InsertByPrice(sorted, e) ==
    IF sorted = <<>> THEN <<e>>
    ELSE IF sorted[Len(sorted)].price <= e.price THEN Append(sorted, e)
    ELSE Append(InsertByPrice(SubSeq(sorted, 1, Len(sorted) - 1), e),
                sorted[Len(sorted)])

\* A response that lists the stores in the order of the dict.
SortedByPrice_Unsorted(entries) == entries

RECURSIVE SortedByPrice(_)
\* sorted(consolidated.values(), key=lambda x: x['price'])
SortedByPrice(entries) ==
    IF entries = <<>> THEN <<>>
    ELSE InsertByPrice(SortedByPrice(SubSeq(entries, 1, Len(entries) - 1)),
                       entries[Len(entries)])

NoEntry == [store |-> "", price |-> 0, url |-> "", source_api |-> "",
            estimated |-> FALSE]

\* A variant that answers an empty result with an error.
PriceReport_ErrorWhenEmpty(entries) ==
    IF entries = <<>>
    THEN [status |-> 500, success |-> FALSE, stores |-> <<>>,
          has_lowest |-> FALSE,
          lowest |-> NoEntry,
          count |-> 0]
    ELSE [status |-> 200, success |-> TRUE,
          stores |-> SortedByPrice(entries),
          has_lowest |-> TRUE,
          lowest |-> SortedByPrice(entries)[1],
          count |-> Len(entries)]

\* The body of the success response: result.stores, result.lowest (has_lowest
\* is FALSE for null), result.count.
PriceReport(entries) ==
    LET stores_list == SortedByPrice(entries)
    IN  [status |-> 200, success |-> TRUE,
         stores |-> stores_list,
         has_lowest |-> stores_list # <<>>,
         lowest |-> IF stores_list # <<>> THEN stores_list[1] ELSE NoEntry,
         count |-> Len(stores_list)]

NoResponse == [status |-> 0, success |-> FALSE, stores |-> <<>>,
               has_lowest |-> FALSE, lowest |-> NoEntry, count |-> 0]

ErrorResponse == [status |-> 500, success |-> FALSE, stores |-> <<>>,
                  has_lowest |-> FALSE, lowest |-> NoEntry, count |-> 0]

----------------------------------------------------------------------------
(* The orchestrator: tables and pure parts *)

\* MEXICAN_STORES: the entries the orchestrator reads
MEXICAN_STORES ==
    "walmart" :> [name |-> "Walmart Mexico", search_url |-> "https://www.walmart.com.mx/search"] @@
    "soriana" :> [name |-> "Soriana", search_url |-> "https://www.soriana.com/buscar"] @@
    "chedraui" :> [name |-> "Chedraui", search_url |-> "https://www.chedraui.com.mx/search"] @@
    "heb" :> [name |-> "HEB", search_url |-> "https://www.heb.com.mx/search"] @@
    "fahorro" :> [name |-> "Farmacias del Ahorro", search_url |-> "https://www.fahorro.com/catalogsearch"] @@
    "fguadalajara" :> [name |-> "Farmacias Guadalajara", search_url |-> "https://www.farmaciasguadalajara.com/search"] @@
    "lacomer" :> [name |-> "La Comer", search_url |-> "https://www.lacomer.com.mx/"] @@
    "sams" :> [name |-> "Sam's Club", search_url |-> "https://www.sams.com.mx/search"]

\* search_prices_oxylabs: the stores given a direct task when no candidate
\* URL names them
priority_stores == <<"walmart", "chedraui", "heb", "fguadalajara">>

\* search_prices_direct: the stores of the direct mode
universal_stores == <<"walmart", "soriana", "chedraui", "fahorro", "lacomer", "sams">>

SeqRange(s) == {s[i] : i \in 1..Len(s)}

\* the first MaxStoreTasks stores of a list: the stores the model schedules
Scheduled(store_list) ==
    {store_list[i] : i \in 1..(IF Len(store_list) < MaxStoreTasks
                               THEN Len(store_list) ELSE MaxStoreTasks)}

\* The futures: AmazonTask is the vendor task, UrlTask(i) scrapes
\* google_urls[i], StoreTask(k) scrapes the search page of store k.
AmazonTask == [kind |-> "amazon", n |-> 0, store |-> ""]
UrlTask(i) == [kind |-> "url", n |-> i, store |-> ""]
StoreTask(k) == [kind |-> "store", n |-> 0, store |-> k]

NoTasks == [t \in {} |-> [state |-> "running", result |-> <<>>]]

\* google_urls[:15]
MaxScrapedUrls == 15
ScrapedUrls == 1..(IF Len(google_urls) < MaxScrapedUrls THEN Len(google_urls)
                   ELSE MaxScrapedUrls)

url_futures == {UrlTask(i) : i \in ScrapedUrls}

\* stores_in_google = {u.get('store', '').lower() for u in google_urls}
stores_in_google(urls) == {Lower(Spelling[urls[i].store]) : i \in 1..Len(urls)}

\* the priority stores whose name is in no store name of google_urls
DirectStores(urls) ==
    {k \in Scheduled(priority_stores) :
        ~\E s \in stores_in_google(urls) :
            Contains(s, Lower(Spelling[MEXICAN_STORES[k].name]))}

\* The plausibility range of the orchestrator's de-duplication, in pesos.
DedupMinPrice == 5
DedupMaxPrice == 500

\* the position of a store in stores_seen, 0 when it is not a key
SeenAt(stores_seen, store) ==
    IF \E i \in 1..Len(stores_seen) : stores_seen[i].store = store
    THEN CHOOSE i \in 1..Len(stores_seen) : stores_seen[i].store = store
    ELSE 0

\* one iteration of the de-duplication loop of search_prices_oxylabs
DedupItem(stores_seen, result) ==
    IF ~(Pesos(DedupMinPrice) <= result.price /\ result.price <= Pesos(DedupMaxPrice))
    THEN stores_seen
    ELSE LET i == SeenAt(stores_seen, result.store)
         IN  IF i = 0 THEN Append(stores_seen, result)
             ELSE IF result.match_score > stores_seen[i].match_score
             THEN [stores_seen EXCEPT ![i] = result]
             ELSE stores_seen

RECURSIVE DedupByStore(_)
\* validated_results of search_prices_oxylabs: per store the result of the
\* best score, the first seen on equal scores
DedupByStore(results) ==
    IF results = <<>> THEN <<>>
    ELSE DedupItem(DedupByStore(SubSeq(results, 1, Len(results) - 1)),
                   results[Len(results)])

\* the score below which search_prices_direct drops a result, in percent
DirectMinScore == 25

\* validated_results of search_prices_direct
DirectValidated(results) ==
    SelectSeq(results, LAMBDA r : r.match_score >= DirectMinScore)

\* What consolidate_prices reads of a scraped result: it carries no
\* 'estimated' key, which reads as False.
AsPriceItem(r) ==
    [store |-> r.store, price |-> NumPrice(r.price), estimated |-> FALSE,
     url |-> r.url, source_api |-> r.source_api]

AsPriceItems(results) == [i \in 1..Len(results) |-> AsPriceItem(results[i])]

----------------------------------------------------------------------------
(* The orchestrator: what the tasks can return *)

\* the candidate URLs a search can return, with the store of their domain
CandidateUrls ==
    {[url |-> "https://www.walmart.com.mx/ip/1", store |-> "Walmart Mexico"],
     [url |-> "https://www.walmart.com.mx/ip/2", store |-> "Walmart Mexico"],
     [url |-> "https://www.superama.com.mx/1", store |-> "Superama"]}

\* the lists search_google_for_prices can return: no URL twice
SearchResults ==
    {s \in UNION {[1..n -> CandidateUrls] : n \in 0..MaxFound} :
        \A i, j \in 1..Len(s) : s[i].url = s[j].url => i = j}

\* match scores, in percent
TaskScores == {30, 50}

\* scrape_amazon_mexico: nothing, or its best match (price in 10..5000)
AmazonOutcomes ==
    {<<>>} \cup
    {<<[store |-> "Amazon Mexico", price |-> Pesos(p), match_score |-> 50,
        url |-> "https://www.amazon.com.mx/dp/B0", source_api |-> "oxylabs"]>> :
        p \in {45, 600}}

\* scrape_product_url: None, or the best match of the page (price in 5..500)
UrlOutcomes(url_info) ==
    {<<>>} \cup
    {<<[store |-> url_info.store, price |-> Pesos(p), match_score |-> s,
        url |-> url_info.url, source_api |-> "oxylabs_google"]>> :
        p \in {38, 45}, s \in TaskScores}

\* scrape_store_universal: nothing, or its best match (price in 10..5000)
StoreOutcomes(store_key) ==
    {<<>>} \cup
    {<<[store |-> MEXICAN_STORES[store_key].name, price |-> Pesos(38),
        match_score |-> 50, url |-> MEXICAN_STORES[store_key].search_url,
        source_api |-> "oxylabs"]>>}

Outcomes(t) ==
    CASE t.kind = "amazon" -> AmazonOutcomes
      [] t.kind = "url" -> UrlOutcomes(google_urls[t.n])
      [] t.kind = "store" -> StoreOutcomes(t.store)

direct_futures == {t \in DOMAIN task : t.kind = "store"}

Running(t) == t \in DOMAIN task /\ task[t].state = "running"
Done(t) == t \in DOMAIN task /\ task[t].state = "done"

\* the futures, all running, for a set of task names
Submitted(names) == [t \in names |-> [state |-> "running", result |-> <<>>]]

----------------------------------------------------------------------------
(* The orchestrator: actions *)

Requests ==
    [well_formed : BOOLEAN, product_name : BOOLEAN, upc : BOOLEAN]

Environments == [oxylabs_ok : BOOLEAN]

\* api_price_check reads the request: a body that is not the expected JSON
\* object raises and is answered 500; otherwise product_info is built and
\* search_prices_oxylabs is called.
Receive ==
    /\ pc = "request"
    /\ IF request.well_formed
       THEN /\ pc' = "searching"
            /\ orch_pc' = "start"
            /\ UNCHANGED response
       ELSE /\ pc' = "responded"
            /\ response' = ErrorResponse
            /\ UNCHANGED orch_pc
    /\ UNCHANGED <<request, env, google_urls, task, yielded, all_results,
                   windows, all_prices, consolidated>>
    /\ UNCHANGED ext_vars

\* search_prices_oxylabs returns [] at once: no credentials, or nothing to
\* search for
OrchEarlyReturn ==
    /\ pc = "searching" /\ orch_pc = "start"
    /\ ~env.oxylabs_ok \/ (~request.product_name /\ ~request.upc)
    /\ orch_pc' = "returned"
    /\ all_prices' = <<>>
    /\ pc' = "collect"
    /\ UNCHANGED <<request, env, google_urls, task, yielded, all_results,
                   windows, consolidated, response>>
    /\ UNCHANGED ext_vars

\* the candidates of the two search passes: by UPC when there is one, by
\* name when there is one and fewer than 10 candidates so far, new URLs only
MinCandidates == 10

CombinedUrls(upc_urls, name_urls) ==
    LET first == IF request.upc THEN upc_urls ELSE <<>>
        known == {first[i].url : i \in 1..Len(first)}
    IN  IF request.product_name /\ Len(first) < MinCandidates
        THEN first \o SelectSeq(name_urls, LAMBDA u : u.url \notin known)
        ELSE first

\* search_prices_oxylabs: the searches found candidates; the vendor task,
\* one task per candidate URL and one per uncovered priority store are
\* submitted and the collection starts with the vendor task.
StartScraping ==
    /\ pc = "searching" /\ orch_pc = "start"
    /\ env.oxylabs_ok /\ (request.product_name \/ request.upc)
    /\ \E upc_urls \in SearchResults, name_urls \in SearchResults :
        LET urls == CombinedUrls(upc_urls, name_urls)
            n == IF Len(urls) < MaxScrapedUrls THEN Len(urls) ELSE MaxScrapedUrls
        IN  /\ urls # <<>>
            /\ google_urls' = urls
            /\ task' = Submitted({AmazonTask} \cup {UrlTask(i) : i \in 1..n}
                                 \cup {StoreTask(k) : k \in DirectStores(urls)})
    /\ orch_pc' = "amazon"
    /\ UNCHANGED <<pc, request, env, yielded, all_results, windows,
                   all_prices, consolidated, response>>
    /\ UNCHANGED ext_vars

\* search_prices_oxylabs hands over to search_prices_direct: the searches
\* found nothing; the vendor task and one task per universal store are
\* submitted.
StartDirect ==
    /\ pc = "searching" /\ orch_pc = "start"
    /\ env.oxylabs_ok /\ (request.product_name \/ request.upc)
    /\ \E upc_urls \in SearchResults, name_urls \in SearchResults :
        CombinedUrls(upc_urls, name_urls) = <<>>
    /\ google_urls' = <<>>
    /\ task' = Submitted({AmazonTask}
                          \cup {StoreTask(k) : k \in Scheduled(universal_stores)})
    /\ orch_pc' = "d_amazon"
    /\ UNCHANGED <<pc, request, env, yielded, all_results, windows,
                   all_prices, consolidated, response>>
    /\ UNCHANGED ext_vars

\* a task returns, in a worker thread
TaskFinish ==
    /\ \E t \in DOMAIN task :
        /\ Running(t)
        /\ \E r \in Outcomes(t) :
            task' = [task EXCEPT ![t] = [state |-> "done", result |-> r]]
    /\ UNCHANGED <<pc, request, env, google_urls, yielded, orch_pc,
                   all_results, windows, all_prices, consolidated, response>>
    /\ UNCHANGED ext_vars

\* amazon_future.result(timeout=50) returns the vendor task's results
AmazonCollect ==
    /\ orch_pc = "amazon" /\ Done(AmazonTask)
    /\ all_results' = all_results \o task[AmazonTask].result
    /\ orch_pc' = "urls"
    /\ windows' = windows \cup {"amazon"}
    /\ UNCHANGED <<pc, request, env, google_urls, task, yielded, all_prices,
                   consolidated, response>>
    /\ UNCHANGED ext_vars

\* amazon_future.result(timeout=50) times out: caught by `except Exception`
AmazonTimeout ==
    /\ orch_pc = "amazon" /\ Running(AmazonTask)
    /\ orch_pc' = "urls"
    /\ windows' = windows \cup {"amazon"}
    /\ UNCHANGED <<pc, request, env, google_urls, task, yielded, all_results,
                   all_prices, consolidated, response>>
    /\ UNCHANGED ext_vars

\* as_completed(url_futures, timeout=55) yields a finished future; a result
\* that is not None is appended
UrlYield ==
    /\ orch_pc = "urls"
    /\ \E t \in url_futures \ yielded :
        /\ Done(t)
        /\ yielded' = yielded \cup {t}
        /\ all_results' = all_results \o task[t].result
    /\ UNCHANGED <<pc, request, env, google_urls, task, orch_pc, windows,
                   all_prices, consolidated, response>>
    /\ UNCHANGED ext_vars

\* as_completed(url_futures) is exhausted
UrlsCollected ==
    /\ orch_pc = "urls"
    /\ url_futures \subseteq yielded
    /\ orch_pc' = "direct"
    /\ windows' = windows \cup {"urls"}
    /\ UNCHANGED <<pc, request, env, google_urls, task, yielded, all_results,
                   all_prices, consolidated, response>>
    /\ UNCHANGED ext_vars

\* as_completed(url_futures, timeout=55) raises
\* concurrent.futures.TimeoutError while a future is unfinished.  The module
\* imports only ThreadPoolExecutor and as_completed, so `except TimeoutError`
\* names the builtin: whether it catches the exception is decided by the
\* interpreter that runs the module (the two classes are one from Python
\* 3.11 on, and distinct before).  Here it catches it.
UrlTimeoutCaught ==
    /\ orch_pc = "urls"
    /\ \E t \in url_futures : Running(t)
    /\ orch_pc' = "direct"
    /\ windows' = windows \cup {"urls"}
    /\ UNCHANGED <<pc, request, env, google_urls, task, yielded, all_results,
                   all_prices, consolidated, response>>
    /\ UNCHANGED ext_vars

\* The same timeout under an interpreter whose concurrent.futures.TimeoutError
\* is a class of its own: `except TimeoutError` does not catch it, it leaves
\* the with block and reaches the outer `except Exception`.
UrlTimeoutEscapes ==
    /\ orch_pc = "urls"
    /\ \E t \in url_futures : Running(t)
    /\ orch_pc' = "shutdown"
    /\ windows' = windows \cup {"urls"}
    /\ UNCHANGED <<pc, request, env, google_urls, task, yielded, all_results,
                   all_prices, consolidated, response>>
    /\ UNCHANGED ext_vars

\* as_completed(direct_futures, timeout=30) yields a finished future
DirectYield ==
    /\ orch_pc = "direct"
    /\ \E t \in direct_futures \ yielded :
        /\ Done(t)
        /\ yielded' = yielded \cup {t}
        /\ all_results' = all_results \o task[t].result
    /\ UNCHANGED <<pc, request, env, google_urls, task, orch_pc, windows,
                   all_prices, consolidated, response>>
    /\ UNCHANGED ext_vars

\* as_completed(direct_futures) is exhausted
DirectCollected ==
    /\ orch_pc = "direct"
    /\ direct_futures \subseteq yielded
    /\ orch_pc' = "shutdown"
    /\ windows' = windows \cup {"direct"}
    /\ UNCHANGED <<pc, request, env, google_urls, task, yielded, all_results,
                   all_prices, consolidated, response>>
    /\ UNCHANGED ext_vars

\* as_completed(direct_futures, timeout=30) times out: caught by
\* `except TimeoutError` or by the outer `except Exception`, the with block
\* is left either way
DirectTimeout ==
    /\ orch_pc = "direct"
    /\ \E t \in direct_futures : Running(t)
    /\ orch_pc' = "shutdown"
    /\ windows' = windows \cup {"direct"}
    /\ UNCHANGED <<pc, request, env, google_urls, task, yielded, all_results,
                   all_prices, consolidated, response>>
    /\ UNCHANGED ext_vars

\* ThreadPoolExecutor.__exit__ is shutdown(wait=True): the with block is
\* left only when every submitted task has finished
\* (the pools hold 8 and 5 workers; the model submits fewer tasks than that,
\* so every submitted task runs at once and none waits for a worker)
ExecutorJoined == \A t \in DOMAIN task : Done(t)

\* search_prices_oxylabs leaves the with block, de-duplicates and returns
\* to api_price_check
OrchReturn ==
    /\ orch_pc = "shutdown"
    /\ ExecutorJoined
    /\ orch_pc' = "returned"
    /\ all_prices' = AsPriceItems(DedupByStore(all_results))
    /\ pc' = "collect"
    /\ UNCHANGED <<request, env, google_urls, task, yielded, all_results,
                   windows, consolidated, response>>
    /\ UNCHANGED ext_vars

\* search_prices_direct: amazon_future.result(timeout=65) returns
DirectAmazonCollect ==
    /\ orch_pc = "d_amazon" /\ Done(AmazonTask)
    /\ all_results' = all_results \o task[AmazonTask].result
    /\ orch_pc' = "d_stores"
    /\ windows' = windows \cup {"amazon"}
    /\ UNCHANGED <<pc, request, env, google_urls, task, yielded, all_prices,
                   consolidated, response>>
    /\ UNCHANGED ext_vars

\* search_prices_direct: amazon_future.result(timeout=65) times out
DirectAmazonTimeout ==
    /\ orch_pc = "d_amazon" /\ Running(AmazonTask)
    /\ orch_pc' = "d_stores"
    /\ windows' = windows \cup {"amazon"}
    /\ UNCHANGED <<pc, request, env, google_urls, task, yielded, all_results,
                   all_prices, consolidated, response>>
    /\ UNCHANGED ext_vars

\* search_prices_direct: as_completed(store_futures, timeout=70) yields
StoreYield ==
    /\ orch_pc = "d_stores"
    /\ \E t \in direct_futures \ yielded :
        /\ Done(t)
        /\ yielded' = yielded \cup {t}
        /\ all_results' = all_results \o task[t].result
    /\ UNCHANGED <<pc, request, env, google_urls, task, orch_pc, windows,
                   all_prices, consolidated, response>>
    /\ UNCHANGED ext_vars

\* search_prices_direct: as_completed(store_futures) is exhausted
StoresCollected ==
    /\ orch_pc = "d_stores"
    /\ direct_futures \subseteq yielded
    /\ orch_pc' = "d_shutdown"
    /\ windows' = windows \cup {"direct"}
    /\ UNCHANGED <<pc, request, env, google_urls, task, yielded, all_results,
                   all_prices, consolidated, response>>
    /\ UNCHANGED ext_vars

\* search_prices_direct: as_completed(store_futures, timeout=70) times out
StoresTimeout ==
    /\ orch_pc = "d_stores"
    /\ \E t \in direct_futures : Running(t)
    /\ orch_pc' = "d_shutdown"
    /\ windows' = windows \cup {"direct"}
    /\ UNCHANGED <<pc, request, env, google_urls, task, yielded, all_results,
                   all_prices, consolidated, response>>
    /\ UNCHANGED ext_vars

\* search_prices_direct leaves its with block, drops low scores and returns
\* through search_prices_oxylabs to api_price_check
DirectReturn ==
    /\ orch_pc = "d_shutdown"
    /\ ExecutorJoined
    /\ orch_pc' = "returned"
    /\ all_prices' = AsPriceItems(DirectValidated(all_results))
    /\ pc' = "collect"
    /\ UNCHANGED <<request, env, google_urls, task, yielded, all_results,
                   windows, consolidated, response>>
    /\ UNCHANGED ext_vars


----------------------------------------------------------------------------
(* app.py: the check_price endpoint *)

\* most organic results one provider answer holds
MaxOrganic == 2

\* longest barcode text a request carries
MaxUpcLen == 2

Whitespace == {" "}

RECURSIVE LStrip(_)
LStrip(s) ==
    IF s # <<>> /\ s[1] \in Whitespace THEN LStrip(Tail(s)) ELSE s

RECURSIVE RStrip(_)
RStrip(s) ==
    IF s # <<>> /\ s[Len(s)] \in Whitespace
    THEN RStrip(SubSeq(s, 1, Len(s) - 1))
    ELSE s

\* str.strip()
Strip(s) == RStrip(LStrip(s))

\* _clean_upc: re.sub(r"\D+", "", s or "")
_clean_upc(s) == SelectSeq(s, IsDigit)

\* the texts a request carries as its barcode: digits, separators, blanks
UpcChars == {"7", "5", "-", " "}
UpcTexts == UNION {[1..n -> UpcChars] : n \in 0..MaxUpcLen}

QueryTexts == {<<>>, <<" ">>, <<"c", "o", "l", "a">>, <<" ", "c", "o", "l", "a">>}

CheckPriceRequests ==
    [body : BOOLEAN, query : QueryTexts, upc : UpcTexts,
     search_type : {"shopping", "organic"}]

CheckPriceEnvironments == [configured : BOOLEAN]

\* check_price: the provider query
BuildSearchQuery(query, upc) ==
    IF upc # <<>>
    THEN IF query # <<>>
         THEN query \o <<" ", "U", "P", "C", " ">> \o upc
         ELSE <<"U", "P", "C", " ">> \o upc
    ELSE query

NoOxylabsData == [has_error |-> FALSE, error |-> "", results |-> 0]

\* _search_with_oxylabs_shopping: the dict it returns, 'error' present or not,
\* 'results' by its length
ShoppingOutcomes(configured) ==
    IF ~configured
    THEN {[has_error |-> TRUE, error |-> "Oxylabs not configured", results |-> 0]}
    ELSE {[has_error |-> TRUE, error |-> e, results |-> 0] :
              e \in {"Oxylabs HTTP 500", "Timeout", "ConnectionError"}}
         \cup {[has_error |-> FALSE, error |-> "", results |-> n] :
                  n \in 0..MaxOrganic}

NoCheckPriceResponse == [status |-> 0, error |-> "", total_offers |-> 0]

AppIdle ==
    /\ cp_pc = "idle"
    /\ cp_env = [configured |-> FALSE]
    /\ cp_request = [body |-> FALSE, query |-> <<>>, upc |-> <<>>,
                     search_type |-> "shopping"]
    /\ search_query = <<>>
    /\ oxylabs_data = NoOxylabsData
    /\ cp_response = NoCheckPriceResponse

\* check_price reads and validates the request; a request it accepts has its
\* provider query built
CheckPriceReceive ==
    /\ cp_pc = "request"
    /\ LET query == Strip(cp_request.query)
           upc == _clean_upc(cp_request.upc)
       IN  IF ~cp_request.body
           THEN /\ cp_response' = [status |-> 400, error |-> "No data provided",
                                   total_offers |-> 0]
                /\ cp_pc' = "responded"
                /\ UNCHANGED search_query
           ELSE IF query = <<>> /\ upc = <<>>
           THEN /\ cp_response' = [status |-> 400, error |-> "query or upc required",
                                   total_offers |-> 0]
                /\ cp_pc' = "responded"
                /\ UNCHANGED search_query
           ELSE IF cp_request.search_type # "shopping"
           THEN /\ cp_response' = [status |-> 400,
                                   error |-> "Only shopping search supported",
                                   total_offers |-> 0]
                /\ cp_pc' = "responded"
                /\ search_query' = BuildSearchQuery(query, upc)
           ELSE /\ search_query' = BuildSearchQuery(query, upc)
                /\ cp_pc' = "searching"
                /\ UNCHANGED cp_response
    /\ UNCHANGED <<cp_env, cp_request, oxylabs_data>>
    /\ UNCHANGED not_app_vars

\* oxylabs_data = _search_with_oxylabs_shopping(search_query)
SearchWithOxylabsShopping ==
    /\ cp_pc = "searching"
    /\ \E d \in ShoppingOutcomes(cp_env.configured) : oxylabs_data' = d
    /\ cp_pc' = "searched"
    /\ UNCHANGED <<cp_env, cp_request, search_query, cp_response>>
    /\ UNCHANGED not_app_vars

\* check_price answers: 500 when the provider's dict holds 'error', 200 with
\* no offers when it holds no result, 200 with the analysed offers otherwise
\* (at most one offer per result)
CheckPriceRespond ==
    /\ cp_pc = "searched"
    /\ IF oxylabs_data.has_error
       THEN cp_response' = [status |-> 500, error |-> oxylabs_data.error,
                            total_offers |-> 0]
       ELSE IF oxylabs_data.results = 0
       THEN cp_response' = [status |-> 200, error |-> "", total_offers |-> 0]
       ELSE \E n \in 0..oxylabs_data.results :
               cp_response' = [status |-> 200, error |-> "", total_offers |-> n]
    /\ cp_pc' = "responded"
    /\ UNCHANGED <<cp_env, cp_request, search_query, oxylabs_data>>
    /\ UNCHANGED not_app_vars

NextCheckPrice ==
    CheckPriceReceive \/ SearchWithOxylabsShopping \/ CheckPriceRespond

----------------------------------------------------------------------------
(* price-checker-api.py: the streaming endpoint, api_price_check_stream *)

\* longest list search_prices_oxylabs returns to generate()
MaxStreamPrices == 2

\* The request body as generate() reads it.  data: whether get_json() gave a
\* dict.  screenshot, scrapedData: absent, of the expected type, or a truthy
\* value of another type (a number for the image, a string for the dict).
StreamRequests ==
    [data : BOOLEAN, input : BOOLEAN,
     screenshot : {"absent", "image", "malformed"},
     scrapedData : {"absent", "name", "name_upc", "malformed"}]

NoProductInfo == [product_name |-> FALSE, upc |-> FALSE]

StatusEvent(message) == [type |-> "status", message |-> message, count |-> 0]
ErrorEvent == [type |-> "error", message |-> "", count |-> 0]
CompleteEvent(report) ==
    [type |-> "complete", message |-> "", count |-> report.count]

\* A variant that sends no product event.
ProductEvent_Omitted(evs) == evs

\* yield {'type': 'product', 'product': product_info}
ProductEvent(evs) ==
    Append(evs, [type |-> "product", message |-> "", count |-> 0])

\* the results search_prices_oxylabs can hand to generate()
StreamResults ==
    {[store |-> st, price |-> Pesos(p), match_score |-> 50,
      url |-> "https://www.walmart.com.mx/ip/1", source_api |-> "oxylabs_google"] :
        st \in {"Walmart Mexico", "Superama"}, p \in {38, 45}}

StreamPriceLists ==
    UNION {[1..n -> StreamResults] : n \in 0..MaxStreamPrices}

StreamIdle ==
    /\ st_pc = "idle"
    /\ st_request = [data |-> FALSE, input |-> FALSE, screenshot |-> "absent",
                     scrapedData |-> "absent"]
    /\ product_info = NoProductInfo
    /\ events = <<>>

\* generate() starts: data.get raises when the body is no dict, otherwise
\* the first status event is sent
StreamStart ==
    /\ st_pc = "start"
    /\ IF st_request.data
       THEN /\ events' = Append(events, StatusEvent("Iniciando..."))
            /\ st_pc' = "screenshot"
       ELSE /\ events' = Append(events, ErrorEvent)
            /\ st_pc' = "done"
    /\ UNCHANGED <<st_request, product_info>>
    /\ UNCHANGED not_stream_vars

\* 1. the screenshot: a status event, then the image analysis may give the
\* product a name and a barcode; a screenshot that is no text raises after
\* the status event
StreamScreenshot ==
    /\ st_pc = "screenshot"
    /\ CASE st_request.screenshot = "absent" ->
              /\ st_pc' = "scraped"
              /\ UNCHANGED <<events, product_info>>
         [] st_request.screenshot = "image" ->
              /\ st_pc' = "scraped"
              /\ events' = Append(events, StatusEvent("Analizando imagen..."))
              /\ \E named \in BOOLEAN, coded \in BOOLEAN :
                    product_info' = [product_name |-> named, upc |-> coded]
         [] st_request.screenshot = "malformed" ->
              /\ st_pc' = "done"
              /\ events' = events \o <<StatusEvent("Analizando imagen..."), ErrorEvent>>
              /\ UNCHANGED product_info
    /\ UNCHANGED st_request
    /\ UNCHANGED not_stream_vars

\* 2. and 3. the scraped data and the user's input; scraped data that is no
\* dict raises
StreamScraped ==
    /\ st_pc = "scraped"
    /\ IF st_request.scrapedData = "malformed"
       THEN /\ st_pc' = "done"
            /\ events' = Append(events, ErrorEvent)
            /\ UNCHANGED product_info
       ELSE /\ st_pc' = "lookup"
            /\ product_info' =
                [product_name |-> \/ product_info.product_name
                                  \/ st_request.scrapedData \in {"name", "name_upc"}
                                  \/ st_request.input,
                 upc |-> product_info.upc \/ st_request.scrapedData = "name_upc"]
            /\ UNCHANGED events
    /\ UNCHANGED st_request
    /\ UNCHANGED not_stream_vars

\* 4. the barcode is looked up when it is missing and the product has a
\* name; then the product event and two status events are sent
StreamLookupAndProduct ==
    /\ st_pc = "lookup"
    /\ \E found_upc \in BOOLEAN :
        LET looked == ~product_info.upc /\ product_info.product_name
            evs1 == IF looked
                    THEN Append(events, StatusEvent("Buscando UPC en base de datos..."))
                    ELSE events
            evs2 == IF looked /\ found_upc
                    THEN Append(evs1, StatusEvent("UPC encontrado"))
                    ELSE evs1
        IN  /\ product_info' = [product_info EXCEPT
                                   !.upc = product_info.upc \/ (looked /\ found_upc)]
            /\ events' = ProductEvent(evs2)
                           \o <<StatusEvent("Scrapeando tiendas en tiempo real (paralelo)..."),
                                StatusEvent("Buscando en todas las tiendas...")>>
    /\ st_pc' = "search"
    /\ UNCHANGED st_request
    /\ UNCHANGED not_stream_vars

\* search_prices_oxylabs returns, a status event is sent, the prices are
\* consolidated and sorted and the complete event is sent
StreamSearchAndComplete ==
    /\ st_pc = "search"
    /\ \E oxylabs_prices \in StreamPriceLists :
        events' = events
            \o <<StatusEvent("Encontrados precios"),
                 CompleteEvent(PriceReport(consolidate_prices(
                     AsPriceItems(oxylabs_prices))))>>
    /\ st_pc' = "done"
    /\ UNCHANGED <<st_request, product_info>>
    /\ UNCHANGED not_stream_vars

NextStream ==
    \/ StreamStart \/ StreamScreenshot \/ StreamScraped
    \/ StreamLookupAndProduct \/ StreamSearchAndComplete

----------------------------------------------------------------------------
(* price-checker-api.py: normalize_product_name, calculate_product_match_score *)

\* the letters of the pattern [a-zA-ZáéíóúñÁÉÍÓÚÑ], after lower()
NameLetters ==
    {LowerLetters[i] : i \in 1..Len(LowerLetters)} \cup {"á", "é", "í", "ó", "ú", "ñ"}

\* the characters \b counts as part of a word
WordChars == NameLetters \cup {Digits[i] : i \in 1..Len(Digits)} \cup {"_"}

RECURSIVE WordRuns(_, _, _)
\* the maximal runs of word characters of s, in order
WordRuns(s, run, runs) ==
    IF s = <<>>
    THEN IF run = <<>> THEN runs ELSE Append(runs, run)
    ELSE IF s[1] \in WordChars
    THEN WordRuns(Tail(s), Append(run, s[1]), runs)
    ELSE WordRuns(Tail(s), <<>>, IF run = <<>> THEN runs ELSE Append(runs, run))

\* re.findall(r'\b[letters]+\b', text): a run of letters between two word
\* boundaries is a whole run of word characters made of letters only
FindWords(text) ==
    SelectSeq(WordRuns(text, <<>>, <<>>),
              LAMBDA w : \A i \in 1..Len(w) : w[i] \in NameLetters)

stopwords ==
    {<<"d", "e">>,
     <<"l", "a">>,
     <<"e", "l">>,
     <<"l", "o", "s">>,
     <<"l", "a", "s">>,
     <<"u", "n">>,
     <<"u", "n", "a">>,
     <<"c", "o", "n">>,
     <<"p", "a", "r", "a">>,
     <<"p", "o", "r">>,
     <<"e", "n">>,
     <<"m", "l">>,
     <<"g", "r">>,
     <<"k", "g">>,
     <<"l", "t">>,
     <<"p", "z">>,
     <<"p", "z", "a", "s">>}

\* the shortest keyword is one letter longer than this
MinKeywordLen == 2

\* normalize_product_name: the keywords of a name, in order of appearance
normalize_product_name(name) ==
    IF name = <<>> THEN <<>>
    ELSE SelectSeq(FindWords(Lower(name)),
                   LAMBDA w : w \notin stopwords /\ Len(w) > MinKeywordLen)

\* Scores are fractions num/den with den > 0.
Fraction(n, d) == [num |-> n, den |-> d]

FractionLeq(a, b) == a.num * b.den <= b.num * a.den
FractionEq(a, b) == a.num * b.den = b.num * a.den

\* the bonus is 1/BonusDen
BonusDen == 5

\* A variant that adds the bonus without the cap.
WithBonus_Uncapped(jaccard) ==
    Fraction(BonusDen * jaccard.num + jaccard.den, BonusDen * jaccard.den)

\* min(1.0, jaccard + 0.2)
WithBonus(jaccard) ==
    LET n == BonusDen * jaccard.num + jaccard.den
        d == BonusDen * jaccard.den
    IN  Fraction(IF n > d THEN d ELSE n, d)

\* A variant that scores a query without keywords as no match.
NoKeywordsScore_Zero == Fraction(0, 1)

\* return 0.5: the query has no keywords
NoKeywordsScore == Fraction(1, 2)

\* calculate_product_match_score, given the keyword that list(search_keywords)
\* puts first
ScoreWithFirst(search_keywords, found_keywords, first) ==
    LET intersection == search_keywords \cap found_keywords
        union == search_keywords \cup found_keywords
        jaccard == Fraction(Cardinality(intersection), Cardinality(union))
    IN  IF found_keywords # {} /\ first \in found_keywords
        THEN WithBonus(jaccard)
        ELSE jaccard

\* The values calculate_product_match_score can return.  search_list[0] is
\* the first element of list(set): the iteration order of a set of strings
\* follows their hashes, which the interpreter salts per process, so any
\* keyword of the query can be the one tested for the bonus.
calculate_product_match_score(search, found) ==
    LET search_keywords == SeqRange(normalize_product_name(search))
        found_keywords == SeqRange(normalize_product_name(found))
    IN  IF search = <<>> \/ found = <<>> THEN {Fraction(0, 1)}
        ELSE IF search_keywords = {} THEN {NoKeywordsScore}
        ELSE {ScoreWithFirst(search_keywords, found_keywords, first) :
                 first \in search_keywords}

\* the texts scored
ScoreTexts ==
    {<<>>,
     <<"d", "e", " ", "l", "a">>,
     <<"c", "o", "c", "a", " ", "c", "o", "l", "a">>,
     <<"c", "o", "l", "a", " ", "c", "o", "c", "a">>,
     <<"C", "o", "c", "a", " ", "C", "o", "l", "a", " ", "6", "0", "0", "m", "l">>,
     <<"c", "o", "l", "a", " ", "l", "i", "g", "h", "t">>,
     <<"p", "e", "p", "s", "i">>,
     <<"c", "o", "c", "a", " ", "c", "o", "l", "a", " ", "l", "i", "g", "h", "t">>}

NoScore == Fraction(0, 1)

ScoreIdle ==
    /\ sc_pc = "idle"
    /\ search_name = <<>>
    /\ found_name = <<>>
    /\ match_score = NoScore
    /\ reverse_score = NoScore

\* calculate_product_match_score(search_name, found_name) returns
Score ==
    /\ sc_pc = "start"
    /\ match_score' \in calculate_product_match_score(search_name, found_name)
    /\ sc_pc' = "scored"
    /\ UNCHANGED <<search_name, found_name, reverse_score>>
    /\ UNCHANGED not_score_vars

\* the same pair scored the other way round
ScoreReversed ==
    /\ sc_pc = "scored"
    /\ reverse_score' \in calculate_product_match_score(found_name, search_name)
    /\ sc_pc' = "both"
    /\ UNCHANGED <<search_name, found_name, match_score>>
    /\ UNCHANGED not_score_vars

NextScore == Score \/ ScoreReversed

----------------------------------------------------------------------------
(* price-checker-api.py: extract_products_from_html *)

\* The strategies, in the order of the code: JSON-LD, the VTEX __STATE__
\* object, three VTEX field scans, __NEXT_DATA__, the generic field scan and
\* the scan of the markup.
Strategies ==
    <<"jsonld", "state", "render", "query", "simple", "next", "generic", "html">>

StrategyIndex(name) == CHOOSE i \in 1..Len(Strategies) : Strategies[i] = name

\* The bounds of the range checks, in pesos, and the amounts above which a
\* price is taken for centavos.
PlausibleMin == 5
PlausibleMax == 50000
VtexMaxPrice == 5000
CentsThreshold == 10000
SimpleCentsThreshold == 1000
CentsPerPeso == 100

\* What a strategy's patterns find in the page: nothing, a payload that is
\* not JSON, a payload of valid JSON whose item is not an object, a payload
\* whose nested fields have another type than expected, a product whose
\* price does not convert, or a product with a name and a price.
Found(shape, pesos) == [shape |-> shape, price |-> Pesos(pesos)]
Nothing == Found("absent", 0)

JsonLdFinds ==
    {Nothing, Found("invalid_json", 0), Found("not_object", 0),
     Found("unparsable_price", 0), Found("product", 0), Found("product", 3),
     Found("product", 38)}
StateFinds ==
    {Nothing, Found("invalid_json", 0), Found("bad_shape", 0),
     Found("product", 38), Found("product", 60000)}
RenderFinds == {Nothing, Found("product", 3), Found("product", 38)}
QueryFinds == {Nothing, Found("product", 38), Found("product", 6000)}
SimpleFinds == {Nothing, Found("product", 38), Found("product", 6000)}
NextDataFinds ==
    {Nothing, Found("bad_shape", 0), Found("product", 3), Found("product", 38)}
GenericFinds == {Nothing, Found("product", 38)}
HtmlNameFinds == {Nothing, Found("product", 38)}
HtmlHeadingFinds == {Nothing, Found("product", 3), Found("product", 45)}

Pages ==
    [jsonld : JsonLdFinds, state : StateFinds, render : RenderFinds,
     query : QueryFinds, simple : SimpleFinds, next : NextDataFinds,
     generic : GenericFinds, html_name : HtmlNameFinds,
     html_heading : HtmlHeadingFinds]

\* a pair of the result; the titles of a page tell the strategies apart
Pair(title, price) == [title |-> title, price |-> price]

\* price_float = price_float / 100 when it is above the threshold
Rescaled(price, threshold) ==
    IF price > Pesos(threshold) THEN price \div CentsPerPeso ELSE price

InRange(price, low, high) == Pesos(low) <= price /\ price <= Pesos(high)

\* a strategy that keeps a product whatever its price, provided it is truthy
Unchecked(title, find) ==
    IF find.shape = "product" /\ find.price # 0
    THEN <<Pair(title, find.price)>>
    ELSE <<>>

\* a strategy that rescales and range-checks the price
Checked(title, find, threshold, low, high) ==
    IF find.shape = "product"
       /\ InRange(Rescaled(find.price, threshold), low, high)
    THEN <<Pair(title, Rescaled(find.price, threshold))>>
    ELSE <<>>

\* the threshold of the strategies that do not rescale: no price reaches it
NoRescale == PlausibleMax * CentsPerPeso

ExtractIdle ==
    /\ ex_pc = "idle"
    /\ html = [jsonld |-> Nothing, state |-> Nothing, render |-> Nothing,
               query |-> Nothing, simple |-> Nothing, next |-> Nothing,
               generic |-> Nothing, html_name |-> Nothing,
               html_heading |-> Nothing]
    /\ products = <<>>
    /\ consulted = {}

\* A variant that goes on to the next strategy although pairs were found.
AfterStrategy_NoReturn(name, pairs) ==
    IF name = "html" THEN "returned"
    ELSE Strategies[StrategyIndex(name) + 1]

\* `if products: return products` after a strategy; the last one returns
\* whatever there is
AfterStrategy(name, pairs) ==
    IF pairs # <<>> \/ name = "html" THEN "returned"
    ELSE Strategies[StrategyIndex(name) + 1]

\* one strategy has run and added its pairs
StrategyRan(name, found) ==
    /\ products' = products \o found
    /\ consulted' = consulted \cup {name}
    /\ ex_pc' = AfterStrategy(name, products \o found)
    /\ UNCHANGED html
    /\ UNCHANGED not_extract_vars

\* 1. JSON-LD: only json.JSONDecodeError is caught, so an item that is not
\* an object raises out of the function; no range check
ExtractJsonLd ==
    /\ ex_pc = "jsonld"
    /\ IF html.jsonld.shape = "not_object"
       THEN /\ ex_pc' = "raised"
            /\ consulted' = consulted \cup {"jsonld"}
            /\ UNCHANGED <<html, products>>
            /\ UNCHANGED not_extract_vars
       ELSE StrategyRan("jsonld", Unchecked("jsonld", html.jsonld))

\* 2a. the VTEX __STATE__ object: every exception is caught
ExtractState ==
    /\ ex_pc = "state"
    /\ StrategyRan("state", Checked("state", html.state, CentsThreshold,
                                    PlausibleMin, PlausibleMax))

\* 2b. productName ... sellingPrice
ExtractRender ==
    /\ ex_pc = "render"
    /\ StrategyRan("render", Checked("render", html.render, CentsThreshold,
                                     PlausibleMin, PlausibleMax))

\* 2c. product ... priceRange ... lowPrice
ExtractQuery ==
    /\ ex_pc = "query"
    /\ StrategyRan("query", Checked("query", html.query, NoRescale,
                                    PlausibleMin, VtexMaxPrice))

\* 2d. productName ... Price
ExtractSimple ==
    /\ ex_pc = "simple"
    /\ StrategyRan("simple", Checked("simple", html.simple, SimpleCentsThreshold,
                                     PlausibleMin, VtexMaxPrice))

\* 3. __NEXT_DATA__: every exception is caught; no range check
ExtractNextData ==
    /\ ex_pc = "next"
    /\ StrategyRan("next", Unchecked("next", html.next))

\* 4. the generic field scan
ExtractGeneric ==
    /\ ex_pc = "generic"
    /\ StrategyRan("generic", Checked("generic", html.generic, CentsThreshold,
                                      PlausibleMin, PlausibleMax))

\* 5. the markup: the pairs of every pattern are added
ExtractHtml ==
    /\ ex_pc = "html"
    /\ StrategyRan("html",
           Checked("html", html.html_name, NoRescale, PlausibleMin, PlausibleMax)
           \o Checked("html", html.html_heading, NoRescale, PlausibleMin,
                      PlausibleMax))

NextExtract ==
    \/ ExtractJsonLd \/ ExtractState \/ ExtractRender \/ ExtractQuery
    \/ ExtractSimple \/ ExtractNextData \/ ExtractGeneric \/ ExtractHtml

----------------------------------------------------------------------------
(* price-checker-api.py: the barcode in api_price_check *)

\* " precio mexico", the tail of every search term
PrecioMexico ==
    <<" ", "p", "r", "e", "c", "i", "o", " ", "m", "e", "x", "i", "c", "o">>

\* The request: whether scrapedData carries a productName, whether input is
\* non-blank, and the text of scrapedData.upc.
BarcodeRequests ==
    [product_name : BOOLEAN, user_input : BOOLEAN, upc : UpcTexts]

NoBarcodeInfo == [product_name |-> FALSE, upc |-> <<>>]

BarcodeIdle ==
    /\ bc_pc = "idle"
    /\ bc_request = [product_name |-> FALSE, user_input |-> FALSE, upc |-> <<>>]
    /\ bc_product_info = NoBarcodeInfo
    /\ search_term = <<>>
    /\ result_product = NoBarcodeInfo

\* api_price_check, steps 2 and 3: the scraped fields are copied when they
\* are truthy, the barcode as the text it came in (no cleaning); the user's
\* input is the name when there is no other.
IdentifyProduct ==
    /\ bc_pc = "received"
    /\ bc_product_info' =
          [product_name |-> bc_request.product_name \/ bc_request.user_input,
           upc |-> IF bc_request.upc # <<>>
                   THEN bc_request.upc ELSE <<>>]
    /\ bc_pc' = "identified"
    /\ UNCHANGED <<bc_request, search_term, result_product>>
    /\ UNCHANGED not_barcode_vars

\* search_prices_oxylabs: nothing to search for returns at once; with a
\* barcode, search_google_for_prices builds f"{upc} precio mexico".
SearchByBarcode ==
    /\ bc_pc = "identified"
    /\ search_term' =
          IF bc_product_info.upc # <<>>
          THEN bc_product_info.upc \o PrecioMexico
          ELSE <<>>
    /\ bc_pc' = "searched"
    /\ UNCHANGED <<bc_request, bc_product_info, result_product>>
    /\ UNCHANGED not_barcode_vars

\* api_price_check, step 6: result["product"]
SummariseProduct ==
    /\ bc_pc = "searched"
    /\ result_product' = bc_product_info
    /\ bc_pc' = "responded"
    /\ UNCHANGED <<bc_request, bc_product_info, search_term>>
    /\ UNCHANGED not_barcode_vars

NextBarcode == IdentifyProduct \/ SearchByBarcode \/ SummariseProduct

----------------------------------------------------------------------------
(* price-checker-api.py: is_multipack and the selection of one offer per page *)

\* \b at position i of t: between t[i-1] and t[i], one is a word character
\* and the other is not (or is missing)
Boundary(t, i) ==
    (i > 1 /\ t[i - 1] \in WordChars) # (i <= Len(t) /\ t[i] \in WordChars)

\* the word w stands at position i of t
WordAt(t, i, w) ==
    /\ i + Len(w) - 1 <= Len(t)
    /\ SubSeq(t, i, i + Len(w) - 1) = w

\* t[i..j] is a non-empty run of digits
DigitsAt(t, i, j) == i <= j /\ j <= Len(t) /\ \A k \in i..j : IsDigit(t[k])

\* t[i..j] is whitespace, possibly none
SpaceAt(t, i, j) == j <= Len(t) /\ \A k \in i..j : t[k] \in Whitespace

\* the words of the patterns \b\d+\s*pack\b, pzas?, piezas?, frascos?,
\* botellas?, unidades?
CountedWords ==
    {<<"p", "a", "c", "k">>,
     <<"p", "z", "a">>, <<"p", "z", "a", "s">>,
     <<"p", "i", "e", "z", "a">>, <<"p", "i", "e", "z", "a", "s">>,
     <<"f", "r", "a", "s", "c", "o">>, <<"f", "r", "a", "s", "c", "o", "s">>,
     <<"b", "o", "t", "e", "l", "l", "a">>,
     <<"b", "o", "t", "e", "l", "l", "a", "s">>,
     <<"u", "n", "i", "d", "a", "d", "e">>,
     <<"u", "n", "i", "d", "a", "d", "e", "s">>}

\* the words of the patterns \bpack\s*de\s*\d+\b and \bpaquete\s*de\s*\d+\b
PackWords == {<<"p", "a", "c", "k">>, <<"p", "a", "q", "u", "e", "t", "e">>}

\* \b\d+\s*word\b somewhere in t.  The patterns in parentheses and the
\* patterns with a fixed number match only where this one does.
CountThenWord(t) ==
    \E i \in 1..Len(t) :
        /\ Boundary(t, i)
        /\ IsDigit(t[i])
        /\ \E j \in i..Len(t) :
              /\ DigitsAt(t, i, j)
              /\ \E k \in (j + 1)..Len(t) :
                    /\ SpaceAt(t, j + 1, k - 1)
                    /\ \E w \in CountedWords :
                          WordAt(t, k, w) /\ Boundary(t, k + Len(w))

\* \s*\d+\b from position p of t on
SpaceThenCount(t, p) ==
    \E n \in p..Len(t) :
        /\ SpaceAt(t, p, n - 1)
        /\ \E j \in n..Len(t) : DigitsAt(t, n, j) /\ Boundary(t, j + 1)

\* \bpack\s*de\s*\d+\b or \bpaquete\s*de\s*\d+\b somewhere in t
PackOfCount(t) ==
    \E i \in 1..Len(t) :
        /\ Boundary(t, i)
        /\ \E w \in PackWords :
              /\ WordAt(t, i, w)
              /\ \E d \in (i + Len(w))..Len(t) :
                    /\ SpaceAt(t, i + Len(w), d - 1)
                    /\ WordAt(t, d, <<"d", "e">>)
                    /\ SpaceThenCount(t, d + 2)

\* \bx\s*\d+\b somewhere in t
TimesCount(t) ==
    \E i \in 1..Len(t) :
        /\ Boundary(t, i)
        /\ t[i] = "x"
        /\ SpaceThenCount(t, i + 1)

is_multipack(title) ==
    LET title_lower == Lower(title)
    IN  CountThenWord(title_lower) \/ PackOfCount(title_lower)
        \/ TimesCount(title_lower)

\* The price ranges of the scrapers, in pesos, and their score thresholds.
StoreMinPrice == 10
StoreMaxPrice == 5000
UrlMinPrice == 5
UrlMaxPrice == 500
min_match_score == Fraction(3, 10)
UrlMinScore == Fraction(1, 5)

\* the most candidates on a page
MaxCandidates == 2

\* the titles and prices found on a page
PageTitles ==
    {<<"c", "o", "c", "a", " ", "c", "o", "l", "a">>,
     <<"C", "o", "c", "a", " ", "C", "o", "l", "a", " ", "6", " ", "P", "a", "c", "k">>,
     <<"c", "o", "l", "a", " ", "l", "i", "g", "h", "t", " ", "l", "a", "t", "a">>,
     <<"p", "e", "p", "s", "i">>,
     <<"c", "o", "l", "a", " ", "x", "6">>}
PagePrices == {Pesos(8), Pesos(18), Pesos(600)}
Candidates == [title : PageTitles, price : PagePrices]

\* what the last-resort extractor finds on the page: 0 for nothing
FallbackPrices == {0, Pesos(25)}

SelectPages ==
    [candidates : UNION {[1..n -> Candidates] : n \in 0..MaxCandidates},
     fallback_price : FallbackPrices]

SelectQuery == <<"c", "o", "c", "a", " ", "c", "o", "l", "a">>

\* the keywords list(search_keywords) can put first; none without keywords
FirstKeywords(search) ==
    LET search_keywords == SeqRange(normalize_product_name(search))
    IN  IF search_keywords = {} THEN {<<>>} ELSE search_keywords

\* calculate_product_match_score in a process whose set order puts the
\* keyword first at the head of list(search_keywords)
ScoreInProcess(search, found, first) ==
    LET search_keywords == SeqRange(normalize_product_name(search))
        found_keywords == SeqRange(normalize_product_name(found))
    IN  IF search = <<>> \/ found = <<>> THEN Fraction(0, 1)
        ELSE IF search_keywords = {} THEN NoKeywordsScore
        ELSE ScoreWithFirst(search_keywords, found_keywords, first)

\* an offer made of a candidate
Offer(candidate, score) ==
    [title |-> candidate.title, price |-> candidate.price, match_score |-> score]

\* the fixed score the last-resort extractors attach to an offer
LastResortScore == Fraction(1, 2)

\* the offer of the last-resort extractors: the title is the query, the
\* score is fixed
FallbackOffer(price) ==
    [title |-> sel_query, price |-> price, match_score |-> LastResortScore]

SelectIdle ==
    /\ sel_pc = "idle"
    /\ sel_query = <<>>
    /\ page = [candidates |-> <<>>, fallback_price |-> 0]
    /\ first_keyword = <<>>
    /\ selected = <<>>

CandidateScore(c) == ScoreInProcess(sel_query, c.title, first_keyword)

\* sorted(key=(-match_score, price)) puts a before b; equal keys keep the
\* order of the list
Before(offers, a, b) ==
    LET sa == offers[a].match_score
        sb == offers[b].match_score
    IN  \/ ~FractionLeq(sa, sb)
        \/ FractionEq(sa, sb) /\ offers[a].price < offers[b].price
        \/ FractionEq(sa, sb) /\ offers[a].price = offers[b].price /\ a < b

\* candidates.sort(...)[0] of a non-empty list
TopOf(offers) ==
    offers[CHOOSE a \in 1..Len(offers) :
               \A b \in 1..Len(offers) : b # a => Before(offers, a, b)]

\* candidates = unitarios if unitarios else multipacks
PreferUnits(valid_products) ==
    LET unitarios == SelectSeq(valid_products, LAMBDA p : ~is_multipack(p.title))
        multipacks == SelectSeq(valid_products, LAMBDA p : is_multipack(p.title))
    IN  IF unitarios # <<>> THEN unitarios ELSE multipacks

\* the loop `if match_score > best_score` over the candidates within the
\* price range and, with a threshold inside the loop, at or above it: the
\* first of the best-scored ones, none when no score is above 0
RECURSIVE BestMatch(_, _, _)
BestMatch(offers, best_match, best_score) ==
    IF offers = <<>> THEN best_match
    ELSE IF ~FractionLeq(offers[1].match_score, best_score)
    THEN BestMatch(Tail(offers), <<offers[1]>>, offers[1].match_score)
    ELSE BestMatch(Tail(offers), best_match, best_score)

\* the offers of the page's candidates, scored
Scored(candidates) ==
    [i \in 1..Len(candidates) |-> Offer(candidates[i], CandidateScore(candidates[i]))]

Selection(scraper, offers) ==
    /\ selected' = offers
    /\ sel_pc' = scraper
    /\ UNCHANGED <<sel_query, page, first_keyword>>
    /\ UNCHANGED not_select_vars

\* scrape_amazon_mexico: the valid products are those in the price range
\* that reach the threshold; units are preferred, then score, then price.
SelectAmazon ==
    /\ sel_pc = "page"
    /\ LET valid_products ==
               SelectSeq(Scored(page.candidates),
                         LAMBDA p : /\ InRange(p.price, StoreMinPrice, StoreMaxPrice)
                                    /\ FractionLeq(min_match_score, p.match_score))
       IN  Selection("amazon",
               IF valid_products # <<>>
               THEN <<TopOf(PreferUnits(valid_products))>>
               ELSE <<>>)

\* scrape_store_universal: the best-scored candidate in the price range at
\* or above the threshold; without structured products, the last resort.
SelectStoreUniversal ==
    /\ sel_pc = "page"
    /\ LET eligible ==
               SelectSeq(Scored(page.candidates),
                         LAMBDA p : /\ InRange(p.price, StoreMinPrice, StoreMaxPrice)
                                    /\ FractionLeq(min_match_score, p.match_score))
       IN  Selection("store",
               IF page.candidates # <<>>
               THEN BestMatch(eligible, <<>>, Fraction(0, 1))
               ELSE IF page.fallback_price # 0
               THEN <<FallbackOffer(page.fallback_price)>>
               ELSE <<>>)

\* scrape_product_url: the best-scored candidate in the price range if it
\* reaches the threshold; otherwise the last resort.
SelectProductUrl ==
    /\ sel_pc = "page"
    /\ LET eligible ==
               SelectSeq(Scored(page.candidates),
                         LAMBDA p : InRange(p.price, UrlMinPrice, UrlMaxPrice))
           best_match == BestMatch(eligible, <<>>, Fraction(0, 1))
       IN  Selection("url",
               IF best_match # <<>>
                  /\ FractionLeq(UrlMinScore, best_match[1].match_score)
               THEN best_match
               ELSE IF page.fallback_price # 0
               THEN <<FallbackOffer(page.fallback_price)>>
               ELSE <<>>)

NextSelect == SelectAmazon \/ SelectStoreUniversal \/ SelectProductUrl

----------------------------------------------------------------------------
(* price-checker-api.py: search_prices_oxylabs, discovery and submission *)

\* the most URLs of the vendor's domain at the head of the first pass, and
\* the most URLs of other stores in a pass
MaxLead == 15
MaxTail == 1

\* a URL is written <<domain, n>>
LeadUrl(i) == [url |-> <<"amazon.com.mx", i>>, store |-> "Amazon Mexico"]

StoreUrls ==
    {[url |-> <<"walmart.com.mx", 1>>, store |-> "Walmart Mexico"],
     [url |-> <<"chedraui.com.mx", 1>>, store |-> "Chedraui"],
     [url |-> <<"superama.com.mx", 1>>, store |-> "Superama"]}

\* lists without a repeated URL, as search_google_for_prices returns them
Unique(urls) == \A i, j \in 1..Len(urls) : urls[i].url = urls[j].url => i = j

Tails(from) ==
    {s \in UNION {[1..n -> from] : n \in 0..MaxTail} : Unique(s)}

\* what the barcode pass can return: URLs of the vendor, then of stores
UpcPassResults ==
    {[i \in 1..lead |-> LeadUrl(i)] \o tail :
        lead \in 0..MaxLead, tail \in Tails(StoreUrls)}

\* what the name pass can return
NamePassResults == Tails(StoreUrls \cup {LeadUrl(1)})

PlanRequests == [product_name : BOOLEAN, upc : BOOLEAN, configured : BOOLEAN]

PlanIdle ==
    /\ dp_pc = "idle"
    /\ dp_request = [product_name |-> FALSE, upc |-> FALSE, configured |-> FALSE]
    /\ dp_found = [upc |-> <<>>, name |-> <<>>]
    /\ searches = <<>>
    /\ dp_urls = <<>>
    /\ dp_mode = "none"
    /\ dp_tasks = {}

\* no credentials, or nothing to search for: return []
PlanEarlyReturn ==
    /\ dp_pc = "start"
    /\ ~dp_request.configured \/ (~dp_request.product_name /\ ~dp_request.upc)
    /\ dp_pc' = "returned"
    /\ UNCHANGED <<dp_request, dp_found, searches, dp_urls, dp_mode, dp_tasks>>
    /\ UNCHANGED not_plan_vars

\* Busqueda 1: if upc, google_urls.extend(search_google_for_prices(.., upc))
SearchPassUpc ==
    /\ dp_pc = "start"
    /\ dp_request.configured /\ (dp_request.product_name \/ dp_request.upc)
    /\ IF dp_request.upc
       THEN /\ searches' = Append(searches, "upc")
            /\ dp_urls' = dp_urls \o dp_found.upc
       ELSE UNCHANGED <<searches, dp_urls>>
    /\ dp_pc' = "upc_pass_done"
    /\ UNCHANGED <<dp_request, dp_found, dp_mode, dp_tasks>>
    /\ UNCHANGED not_plan_vars

\* A variant of the merge that appends every URL of the name pass.
NewUrls_All(existing, name_urls) == name_urls

\* the URLs of the name pass that are not in google_urls yet
NewUrls(existing, name_urls) ==
    SelectSeq(name_urls,
              LAMBDA u : u.url \notin {existing[i].url : i \in 1..Len(existing)})

\* Busqueda 2: if product_name and len(google_urls) < 10, the name pass
\* runs and its new URLs are appended
SearchPassName ==
    /\ dp_pc = "upc_pass_done"
    /\ IF dp_request.product_name /\ Len(dp_urls) < MinCandidates
       THEN /\ searches' = Append(searches, "name")
            /\ dp_urls' = dp_urls \o NewUrls(dp_urls, dp_found.name)
       ELSE UNCHANGED <<searches, dp_urls>>
    /\ dp_pc' = "discovered"
    /\ UNCHANGED <<dp_request, dp_found, dp_mode, dp_tasks>>
    /\ UNCHANGED not_plan_vars

\* the priority stores whose name is in no store name of google_urls
UncoveredPriority(urls) ==
    {k \in SeqRange(priority_stores) :
        ~\E s \in stores_in_google(urls) :
            Contains(s, Lower(Spelling[MEXICAN_STORES[k].name]))}

\* search_prices_oxylabs submits the vendor task, one task for each of the
\* first 15 URLs and one for each priority store in none of the URLs
SubmitScraping ==
    /\ dp_pc = "discovered"
    /\ dp_urls # <<>>
    /\ LET n == IF Len(dp_urls) < MaxScrapedUrls THEN Len(dp_urls)
                ELSE MaxScrapedUrls
       IN  dp_tasks' = {AmazonTask} \cup {UrlTask(i) : i \in 1..n}
                       \cup {StoreTask(k) : k \in UncoveredPriority(dp_urls)}
    /\ dp_mode' = "search_prices_oxylabs"
    /\ dp_pc' = "submitted"
    /\ UNCHANGED <<dp_request, dp_found, searches, dp_urls>>
    /\ UNCHANGED not_plan_vars

\* A variant of the direct mode without the vendor task.
DirectTasks_NoVendor == {StoreTask(k) : k \in SeqRange(universal_stores)}

\* search_prices_direct: the vendor task and one task per universal store
DirectTasks ==
    {AmazonTask} \cup {StoreTask(k) : k \in SeqRange(universal_stores)}

\* if not google_urls: return search_prices_direct(product_info)
SubmitDirect ==
    /\ dp_pc = "discovered"
    /\ dp_urls = <<>>
    /\ dp_tasks' = DirectTasks
    /\ dp_mode' = "search_prices_direct"
    /\ dp_pc' = "submitted"
    /\ UNCHANGED <<dp_request, dp_found, searches, dp_urls>>
    /\ UNCHANGED not_plan_vars

NextPlan ==
    \/ PlanEarlyReturn \/ SearchPassUpc \/ SearchPassName
    \/ SubmitScraping \/ SubmitDirect

----------------------------------------------------------------------------
(* price-checker-api.py: search_prices_claude, _gemini, _perplexity *)

\* the most offers in a reply
MaxAdapterOffers == 2

\* The reply: the call fails, the text holds no JSON array, or it holds the
\* array of offers; grounded tells whether the reply rests on retrieved
\* sources (search results, citations), which no adapter reads.
ReplyOffers ==
    [store : {"Walmart", "Superama"}, price : {Pesos(38), Pesos(45)}]

Replies ==
    [outcome : {"error", "no_json", "json"},
     grounded : BOOLEAN,
     offers : UNION {[1..n -> ReplyOffers] : n \in 0..MaxAdapterOffers}]

AdapterIdle ==
    /\ ad_pc = "idle"
    /\ reply = [outcome |-> "error", grounded |-> FALSE, offers |-> <<>>]
    /\ ad_prices = <<>>
    /\ ad_consolidated = <<>>

\* an offer of the reply as the adapter returns it: p['source_api'] is set,
\* p['estimated'] only where the adapter sets it
Tagged(p, source_api, sets_estimated) ==
    [store |-> p.store, price |-> p.price, source_api |-> source_api,
     has_estimated |-> sets_estimated, estimated |-> sets_estimated]

AdapterReturns(name, source_api, sets_estimated) ==
    /\ ad_pc = "call"
    /\ ad_prices' =
          IF reply.outcome = "json"
          THEN [i \in 1..Len(reply.offers) |->
                   Tagged(reply.offers[i], source_api, sets_estimated)]
          ELSE <<>>
    /\ ad_pc' = name
    /\ UNCHANGED <<reply, ad_consolidated>>
    /\ UNCHANGED not_adapter_vars

\* search_prices_claude: p['source_api'] = 'claude'
SearchPricesClaude == AdapterReturns("search_prices_claude", "claude", FALSE)

\* search_prices_gemini: p['estimated'] = True
GeminiSetsEstimated == TRUE

\* search_prices_gemini: p['source_api'] = 'gemini'
SearchPricesGemini ==
    AdapterReturns("search_prices_gemini", "gemini", GeminiSetsEstimated)

\* search_prices_perplexity: p['source_api'] = 'perplexity'
SearchPricesPerplexity ==
    AdapterReturns("search_prices_perplexity", "perplexity", FALSE)

\* what consolidate_prices reads of an adapter's offer:
\* item.get('estimated', False), item.get('url', '')
AdapterPriceItem(p) ==
    [store |-> p.store, price |-> NumPrice(p.price),
     estimated |-> IF p.has_estimated THEN p.estimated ELSE FALSE,
     url |-> "", source_api |-> p.source_api]

\* the adapter's list is consolidated
ConsolidateAdapter ==
    /\ ad_pc \in {"search_prices_claude", "search_prices_gemini",
                  "search_prices_perplexity"}
    /\ ad_consolidated' =
          consolidate_prices([i \in 1..Len(ad_prices) |-> AdapterPriceItem(ad_prices[i])])
    /\ ad_pc' = "consolidated"
    /\ UNCHANGED <<reply, ad_prices>>
    /\ UNCHANGED not_adapter_vars

NextAdapter ==
    \/ SearchPricesClaude \/ SearchPricesGemini \/ SearchPricesPerplexity
    \/ ConsolidateAdapter

----------------------------------------------------------------------------
(* price-checker-api.py: requests_session and the provider calls *)

\* Retry(total=2, ...)
RetryTotal == 2

\* the functions that post to a provider over HTTP
HttpCallers ==
    {"search_google_for_prices", "scrape_product_url", "scrape_amazon_mexico",
     "scrape_store_universal", "search_prices_perplexity"}

\* http_client = requests_session if requests_session else requests, in
\* three of the callers; the other two call requests.post
UsesSession(caller) ==
    caller \in {"search_google_for_prices", "scrape_product_url",
                "scrape_amazon_mexico"}

\* what one attempt can meet
AttemptOutcomes == {"200", "200_unparsable", "4xx", "5xx", "connect_error"}

\* The call: who makes it, whether the session exists (requests imported),
\* and what the Retry policy of the installed library does with a POST:
\* whether it retries a status of status_forcelist, and a connection error.
HttpCalls ==
    [caller : HttpCallers, session : BOOLEAN,
     retries_status : BOOLEAN, retries_connect : BOOLEAN]

HttpIdle ==
    /\ ht_pc = "idle"
    /\ http_call = [caller |-> "search_google_for_prices", session |-> FALSE,
                    retries_status |-> FALSE, retries_connect |-> FALSE]
    /\ attempts = <<>>

\* the adapter of the session makes another attempt after this outcome
Retried(outcome, made) ==
    /\ UsesSession(http_call.caller) /\ http_call.session
    /\ made <= RetryTotal
    /\ \/ outcome = "5xx" /\ http_call.retries_status
       \/ outcome = "connect_error" /\ http_call.retries_connect

\* one attempt of the POST
Attempt ==
    /\ ht_pc = "sending"
    /\ \E outcome \in AttemptOutcomes :
          /\ attempts' = Append(attempts, outcome)
          /\ ht_pc' = IF Retried(outcome, Len(attempts) + 1)
                      THEN "sending" ELSE "delivered"
    /\ UNCHANGED http_call
    /\ UNCHANGED not_http_vars

NextHttp == Attempt

----------------------------------------------------------------------------
(* price-checker-api.py: the scraping tasks and the adapters as callees *)

PageTasks == {"scrape_product_url", "scrape_store_universal", "scrape_amazon_mexico"}

AiAdapters == {"search_prices_claude", "search_prices_gemini", "search_prices_perplexity"}

\* the adapters that call their provider through its client library
SdkAdapters == {"search_prices_claude", "search_prices_gemini"}

TaskFunctions == PageTasks \cup {"search_google_for_prices"} \cup AiAdapters

\* what the provider of a call can do
FailureOutcomes ==
    {"missing_credentials", "non_success", "transport_error", "timeout",
     "unparsable", "odd_payload", "odd_page", "no_match"}

ProviderOutcomes == FailureOutcomes \cup {"match"}

\* The calls: a page whose structured data breaks extract_products_from_html
\* is an outcome of the page tasks only.
TaskCalls ==
    {c \in [fn : TaskFunctions, outcome : ProviderOutcomes] :
        c.outcome = "odd_page" => c.fn \in PageTasks}

TaskIdle ==
    /\ tk_pc = "idle"
    /\ task_call = [fn |-> "scrape_product_url", outcome |-> "match"]
    /\ tk_exc = "none"
    /\ tk_result = "pending"

\* the classes named by the except clauses of the function, in order
Handlers_NoCatchAll(fn) ==
    CASE fn = "scrape_product_url" -> <<"Timeout", "ConnectionError", "OSError">>
      [] fn = "scrape_store_universal" -> <<"Timeout", "Exception">>
      [] OTHER -> <<"Exception">>

Handlers(fn) ==
    CASE fn = "scrape_product_url" ->
            <<"Timeout", "ConnectionError", "OSError", "Exception">>
      [] fn = "scrape_store_universal" -> <<"Timeout", "Exception">>
      [] OTHER -> <<"Exception">>

\* the classes an exception is an instance of (requests.exceptions, builtins)
Bases(exc) ==
    CASE exc = "Timeout" -> {"Timeout", "OSError", "Exception"}
      [] exc = "ConnectionError" -> {"ConnectionError", "OSError", "Exception"}
      [] exc = "JSONDecodeError" -> {"JSONDecodeError", "ValueError", "Exception"}
      [] exc = "AttributeError" -> {"AttributeError", "Exception"}
      [] exc = "APIError" -> {"APIError", "Exception"}
      [] OTHER -> {}

\* an except clause of the function matches the exception
Caught(fn, exc) ==
    \E i \in 1..Len(Handlers(fn)) : Handlers(fn)[i] \in Bases(exc)

\* the value the function returns when nothing was appended or matched
NoResultValue(fn) == IF fn = "scrape_product_url" THEN "None" ELSE "[]"

\* An exception inside the try block: to the matching except clause, which
\* logs and falls through to the return, or out of the function.
TaskRaiseInTry(exc) ==
    /\ tk_exc' = exc
    /\ tk_pc' = IF Caught(task_call.fn, exc) THEN "finishing" ELSE "raised"
    /\ tk_result' = tk_result

\* The guards ahead of the try block: search_prices_gemini and
\* search_prices_perplexity return [] without a key.
TaskEnter ==
    /\ tk_pc = "called"
    /\ IF /\ task_call.fn \in {"search_prices_gemini", "search_prices_perplexity"}
          /\ task_call.outcome = "missing_credentials"
       THEN /\ tk_pc' = "returned"
            /\ tk_result' = "[]"
       ELSE /\ tk_pc' = "requesting"
            /\ tk_result' = tk_result
    /\ UNCHANGED <<task_call, tk_exc>>
    /\ UNCHANGED not_task_vars

\* The call of the provider, inside the try block. Without credentials the
\* HTTP providers answer 401 and the client libraries raise.
TaskRequest ==
    /\ tk_pc = "requesting"
    /\ CASE task_call.outcome = "timeout" -> TaskRaiseInTry("Timeout")
         [] task_call.outcome = "transport_error" -> TaskRaiseInTry("ConnectionError")
         [] task_call.outcome \in {"missing_credentials", "non_success"}
                /\ task_call.fn \in SdkAdapters -> TaskRaiseInTry("APIError")
         [] task_call.outcome \in {"missing_credentials", "non_success"}
                /\ task_call.fn = "search_prices_perplexity" ->
                \* else branch of the status test, then `return []`
                /\ tk_pc' = "returned"
                /\ tk_result' = "[]"
                /\ tk_exc' = tk_exc
         [] task_call.outcome \in {"missing_credentials", "non_success"}
                /\ task_call.fn \notin AiAdapters ->
                \* else branch of `if response.status_code == 200`
                /\ tk_pc' = "finishing"
                /\ UNCHANGED <<tk_exc, tk_result>>
         [] OTHER ->
                /\ tk_pc' = "parsing"
                /\ UNCHANGED <<tk_exc, tk_result>>
    /\ UNCHANGED task_call
    /\ UNCHANGED not_task_vars

\* Reading the answer, inside the try block: response.json() or json.loads,
\* the walk over the payload, extract_products_from_html, the selection.
TaskParse ==
    /\ tk_pc = "parsing"
    /\ CASE task_call.outcome = "unparsable" /\ task_call.fn \in AiAdapters ->
                \* no JSON array in the text: `return []` inside the try
                /\ tk_pc' = "returned"
                /\ tk_result' = "[]"
                /\ tk_exc' = tk_exc
         [] task_call.outcome = "unparsable" /\ task_call.fn \notin AiAdapters ->
                TaskRaiseInTry("JSONDecodeError")
         [] task_call.outcome \in {"odd_payload", "odd_page"} ->
                TaskRaiseInTry("AttributeError")
         [] task_call.outcome = "match" ->
                /\ tk_pc' = IF task_call.fn \in AiAdapters \cup {"scrape_product_url"}
                            THEN "returned" ELSE "finishing"
                /\ tk_result' = "offers"
                /\ tk_exc' = tk_exc
         [] OTHER ->
                /\ tk_pc' = IF task_call.fn \in AiAdapters
                            THEN "returned" ELSE "finishing"
                /\ tk_result' = IF task_call.fn \in AiAdapters
                                THEN "[]" ELSE tk_result
                /\ tk_exc' = tk_exc
    /\ UNCHANGED task_call
    /\ UNCHANGED not_task_vars

\* The return after the try statement (in the adapters, inside the except
\* clause): what was collected, or the function's empty value.
TaskReturn ==
    /\ tk_pc = "finishing"
    /\ tk_pc' = "returned"
    /\ tk_result' = IF tk_result = "pending"
                    THEN NoResultValue(task_call.fn) ELSE tk_result
    /\ UNCHANGED <<task_call, tk_exc>>
    /\ UNCHANGED not_task_vars

NextTask ==
    \/ TaskEnter
    \/ TaskRequest
    \/ TaskParse
    \/ TaskReturn

----------------------------------------------------------------------------
(* price-checker-api.py: consolidate_prices over its own entries *)

\* the offers: display names and canonical names, prices as numbers and as
\* the texts an adapter may send
RepeatStores == {"Walmart", "Walmart Mexico", "Superama", "Sam's Club"}

RepeatPrices ==
    {NumPrice(Pesos(38)), NumPrice(Pesos(45)), StrPrice(<<"$", "3", "8">>),
     StrPrice(<<"$", "0">>)}

RepeatOffers ==
    {[store |-> s, price |-> p, estimated |-> e, url |-> "https://a",
      source_api |-> IF e THEN "gemini" ELSE "claude"] :
        s \in RepeatStores, p \in RepeatPrices, e \in BOOLEAN}

RepeatIdle ==
    /\ rc_pc = "idle"
    /\ rc_prices = <<>>
    /\ rc_once = <<>>
    /\ rc_twice = <<>>

\* list(stores.values()): the entries as a list of offers; an entry holds
\* the store key, the price as a float, url, source_api and estimated
EntriesAsPrices(stores) ==
    [i \in 1..Len(stores) |->
        [store |-> stores[i].store, price |-> NumPrice(stores[i].price),
         estimated |-> stores[i].estimated, url |-> stores[i].url,
         source_api |-> stores[i].source_api]]

\* one more offer in the list
RepeatCollect ==
    /\ rc_pc = "input"
    /\ Len(rc_prices) < MaxOffers
    /\ \E o \in RepeatOffers : rc_prices' = Append(rc_prices, o)
    /\ UNCHANGED <<rc_pc, rc_once, rc_twice>>
    /\ UNCHANGED not_repeat_vars

\* consolidate_prices(all_prices)
RepeatConsolidate ==
    /\ rc_pc = "input"
    /\ rc_once' = consolidate_prices(rc_prices)
    /\ rc_pc' = "once"
    /\ UNCHANGED <<rc_prices, rc_twice>>
    /\ UNCHANGED not_repeat_vars

\* consolidate_prices(list(consolidated.values()))
RepeatConsolidateAgain ==
    /\ rc_pc = "once"
    /\ rc_twice' = consolidate_prices(EntriesAsPrices(rc_once))
    /\ rc_pc' = "twice"
    /\ UNCHANGED <<rc_prices, rc_once>>
    /\ UNCHANGED not_repeat_vars

NextRepeat ==
    \/ RepeatCollect
    \/ RepeatConsolidate
    \/ RepeatConsolidateAgain

----------------------------------------------------------------------------
(* price-checker-api.py: search_products_in_database *)

\* for i in range(30)
MaxPolls == 30

\* Status.State of a query execution
QueryStates == {"QUEUED", "RUNNING", "SUCCEEDED", "FAILED", "CANCELLED"}

DatabaseIdle ==
    /\ db_pc = "idle"
    /\ polls = 0
    /\ observed = "none"
    /\ fetched = FALSE
    /\ db_result = "pending"

\* athena_client.start_query_execution(...): the query id, or an exception
\* that the except clause turns into []
StartQuery ==
    /\ db_pc = "start"
    /\ \E started \in BOOLEAN :
          IF started
          THEN /\ db_pc' = "polling"
               /\ db_result' = db_result
          ELSE /\ db_pc' = "returned"
               /\ db_result' = "empty"
    /\ UNCHANGED <<polls, observed, fetched>>
    /\ UNCHANGED not_database_vars

\* One pass of the loop: get_query_execution (an exception goes to the
\* except clause, which returns []), then break, return [] or
\* time.sleep(0.5) and the next pass. The for statement has no else clause:
\* when range(30) is exhausted the statement after it, the fetch, is next.
PollStatus ==
    /\ db_pc = "polling"
    /\ polls < MaxPolls
    /\ polls' = polls + 1
    /\ \/ /\ observed' = observed
          /\ db_pc' = "returned"
          /\ db_result' = "empty"
       \/ \E state \in QueryStates :
             /\ observed' = state
             /\ CASE state = "SUCCEEDED" ->
                       /\ db_pc' = "fetching"
                       /\ db_result' = db_result
                  [] state \in {"FAILED", "CANCELLED"} ->
                       /\ db_pc' = "returned"
                       /\ db_result' = "empty"
                  [] OTHER ->
                       /\ db_pc' = IF polls + 1 = MaxPolls THEN "fetching"
                                   ELSE "polling"
                       /\ db_result' = db_result
    /\ fetched' = fetched
    /\ UNCHANGED not_database_vars

\* athena_client.get_query_results(...): rows, a header row only, or an
\* exception (the query is not finished) that the except clause turns
\* into []
FetchResults ==
    /\ db_pc = "fetching"
    /\ fetched' = TRUE
    /\ \E answer \in {"rows", "no_rows", "exception"} :
          db_result' = IF answer = "rows" THEN "products" ELSE "empty"
    /\ db_pc' = "returned"
    /\ UNCHANGED <<polls, observed>>
    /\ UNCHANGED not_database_vars

NextDatabase ==
    \/ StartQuery
    \/ PollStatus
    \/ FetchResults

----------------------------------------------------------------------------
(* The components at rest *)

ExtIdle == AppIdle /\ StreamIdle /\ ScoreIdle /\ ExtractIdle /\ BarcodeIdle /\ SelectIdle /\ PlanIdle /\ AdapterIdle /\ HttpIdle /\ TaskIdle /\ RepeatIdle /\ DatabaseIdle

EndpointIdle ==
    /\ pc = "idle"
    /\ request = [well_formed |-> TRUE, product_name |-> TRUE, upc |-> FALSE]
    /\ env = [oxylabs_ok |-> FALSE]
    /\ google_urls = <<>>
    /\ task = NoTasks
    /\ yielded = {}
    /\ orch_pc = "idle"
    /\ all_results = <<>>
    /\ windows = {}
    /\ all_prices = <<>>
    /\ consolidated = <<>>
    /\ response = NoResponse

\* check_price, from the request to the response
InitCheckPrice ==
    /\ cp_pc = "request"
    /\ cp_env \in CheckPriceEnvironments
    /\ cp_request \in CheckPriceRequests
    /\ search_query = <<>>
    /\ oxylabs_data = NoOxylabsData
    /\ cp_response = NoCheckPriceResponse
    /\ EndpointIdle
    /\ StreamIdle
    /\ ScoreIdle
    /\ ExtractIdle
    /\ BarcodeIdle
    /\ SelectIdle
    /\ PlanIdle
    /\ AdapterIdle
    /\ HttpIdle
    /\ TaskIdle
    /\ RepeatIdle
    /\ DatabaseIdle

SpecCheckPrice == InitCheckPrice /\ [][NextCheckPrice]_vars

\* the streaming endpoint, from the request to the terminal event
InitStream ==
    /\ st_pc = "start"
    /\ st_request \in StreamRequests
    /\ product_info = NoProductInfo
    /\ events = <<>>
    /\ EndpointIdle
    /\ AppIdle
    /\ ScoreIdle
    /\ ExtractIdle
    /\ BarcodeIdle
    /\ SelectIdle
    /\ PlanIdle
    /\ AdapterIdle
    /\ HttpIdle
    /\ TaskIdle
    /\ RepeatIdle
    /\ DatabaseIdle

SpecStream == InitStream /\ [][NextStream]_vars

\* the scoring function on its own
InitScore ==
    /\ sc_pc = "start"
    /\ search_name \in ScoreTexts
    /\ found_name \in ScoreTexts
    /\ match_score = NoScore
    /\ reverse_score = NoScore
    /\ EndpointIdle
    /\ AppIdle
    /\ StreamIdle
    /\ ExtractIdle
    /\ BarcodeIdle
    /\ SelectIdle
    /\ PlanIdle
    /\ AdapterIdle
    /\ HttpIdle
    /\ TaskIdle
    /\ RepeatIdle
    /\ DatabaseIdle

SpecScore == InitScore /\ [][NextScore]_vars

\* the extraction cascade on its own
InitExtract ==
    /\ ex_pc = "jsonld"
    /\ html \in Pages
    /\ products = <<>>
    /\ consulted = {}
    /\ EndpointIdle
    /\ AppIdle
    /\ StreamIdle
    /\ ScoreIdle
    /\ BarcodeIdle
    /\ SelectIdle
    /\ PlanIdle
    /\ AdapterIdle
    /\ HttpIdle
    /\ TaskIdle
    /\ RepeatIdle
    /\ DatabaseIdle

SpecExtract == InitExtract /\ [][NextExtract]_vars

InitBarcode ==
    /\ bc_pc = "received"
    /\ bc_request \in BarcodeRequests
    /\ bc_product_info = NoBarcodeInfo
    /\ search_term = <<>>
    /\ result_product = NoBarcodeInfo
    /\ EndpointIdle
    /\ AppIdle
    /\ StreamIdle
    /\ ScoreIdle
    /\ ExtractIdle
    /\ SelectIdle
    /\ PlanIdle
    /\ AdapterIdle
    /\ HttpIdle
    /\ TaskIdle
    /\ RepeatIdle
    /\ DatabaseIdle

SpecBarcode == InitBarcode /\ [][NextBarcode]_vars

InitSelect ==
    /\ sel_pc = "page"
    /\ sel_query = SelectQuery
    /\ page \in SelectPages
    /\ first_keyword \in FirstKeywords(SelectQuery)
    /\ selected = <<>>
    /\ EndpointIdle
    /\ AppIdle
    /\ StreamIdle
    /\ ScoreIdle
    /\ ExtractIdle
    /\ BarcodeIdle
    /\ PlanIdle
    /\ AdapterIdle
    /\ HttpIdle
    /\ TaskIdle
    /\ RepeatIdle
    /\ DatabaseIdle

SpecSelect == InitSelect /\ [][NextSelect]_vars

InitPlan ==
    /\ dp_pc = "start"
    /\ dp_request \in PlanRequests
    /\ dp_found \in [upc : UpcPassResults, name : NamePassResults]
    /\ searches = <<>>
    /\ dp_urls = <<>>
    /\ dp_mode = "none"
    /\ dp_tasks = {}
    /\ EndpointIdle
    /\ AppIdle
    /\ StreamIdle
    /\ ScoreIdle
    /\ ExtractIdle
    /\ BarcodeIdle
    /\ SelectIdle
    /\ AdapterIdle
    /\ HttpIdle
    /\ TaskIdle
    /\ RepeatIdle
    /\ DatabaseIdle

SpecPlan == InitPlan /\ [][NextPlan]_vars

InitAdapter ==
    /\ ad_pc = "call"
    /\ reply \in Replies
    /\ ad_prices = <<>>
    /\ ad_consolidated = <<>>
    /\ EndpointIdle
    /\ AppIdle
    /\ StreamIdle
    /\ ScoreIdle
    /\ ExtractIdle
    /\ BarcodeIdle
    /\ SelectIdle
    /\ PlanIdle
    /\ HttpIdle
    /\ TaskIdle
    /\ RepeatIdle
    /\ DatabaseIdle

SpecAdapter == InitAdapter /\ [][NextAdapter]_vars

InitHttp ==
    /\ ht_pc = "sending"
    /\ http_call \in HttpCalls
    /\ attempts = <<>>
    /\ EndpointIdle
    /\ AppIdle
    /\ StreamIdle
    /\ ScoreIdle
    /\ ExtractIdle
    /\ BarcodeIdle
    /\ SelectIdle
    /\ PlanIdle
    /\ AdapterIdle
    /\ TaskIdle
    /\ RepeatIdle
    /\ DatabaseIdle

SpecHttp == InitHttp /\ [][NextHttp]_vars

InitTask ==
    /\ tk_pc = "called"
    /\ task_call \in TaskCalls
    /\ tk_exc = "none"
    /\ tk_result = "pending"
    /\ EndpointIdle
    /\ AppIdle
    /\ StreamIdle
    /\ ScoreIdle
    /\ ExtractIdle
    /\ BarcodeIdle
    /\ SelectIdle
    /\ PlanIdle
    /\ AdapterIdle
    /\ HttpIdle
    /\ RepeatIdle
    /\ DatabaseIdle

SpecTask == InitTask /\ [][NextTask]_vars

InitRepeat ==
    /\ rc_pc = "input"
    /\ rc_prices = <<>>
    /\ rc_once = <<>>
    /\ rc_twice = <<>>
    /\ EndpointIdle
    /\ AppIdle
    /\ StreamIdle
    /\ ScoreIdle
    /\ ExtractIdle
    /\ BarcodeIdle
    /\ SelectIdle
    /\ PlanIdle
    /\ AdapterIdle
    /\ HttpIdle
    /\ TaskIdle
    /\ DatabaseIdle

SpecRepeat == InitRepeat /\ [][NextRepeat]_vars

InitDatabase ==
    /\ db_pc = "start"
    /\ polls = 0
    /\ observed = "none"
    /\ fetched = FALSE
    /\ db_result = "pending"
    /\ EndpointIdle
    /\ AppIdle
    /\ StreamIdle
    /\ ScoreIdle
    /\ ExtractIdle
    /\ BarcodeIdle
    /\ SelectIdle
    /\ PlanIdle
    /\ AdapterIdle
    /\ HttpIdle
    /\ TaskIdle
    /\ RepeatIdle

SpecDatabase == InitDatabase /\ [][NextDatabase]_vars

----------------------------------------------------------------------------
(* Inputs of consolidate_prices taken on its own *)

OfferStores == {"Walmart", "walmart.com.mx", "Superama"}

OfferPrices == {NumPrice(0), NumPrice(Pesos(0 - 3)), NumPrice(Pesos(38)),
                NumPrice(Pesos(45)), StrPrice(<<"$", "3", "8">>),
                StrPrice(<<"n", "/", "a">>)}

OfferUrls == {"https://a", "https://b"}

Offers ==
    {[store |-> s, price |-> p, estimated |-> e, url |-> u,
      source_api |-> IF e THEN "gemini" ELSE "oxylabs"] :
        s \in OfferStores, p \in OfferPrices, e \in BOOLEAN, u \in OfferUrls}

----------------------------------------------------------------------------
(* Actions *)

\* all_prices.extend(...): one more offer reaches the list
CollectOffer ==
    /\ pc = "collect"
    /\ Len(all_prices) < MaxOffers
    /\ \E o \in Offers : all_prices' = Append(all_prices, o)
    /\ UNCHANGED <<pc, consolidated, response, orch_vars>>
    /\ UNCHANGED ext_vars

\* consolidated = consolidate_prices(all_prices)
Consolidate ==
    /\ pc = "collect"
    /\ consolidated' = consolidate_prices(all_prices)
    /\ pc' = "consolidated"
    /\ UNCHANGED <<all_prices, response, orch_vars>>
    /\ UNCHANGED ext_vars

\* the response is assembled and returned
Respond ==
    /\ pc = "consolidated"
    /\ response' = PriceReport(consolidated)
    /\ pc' = "responded"
    /\ UNCHANGED <<all_prices, consolidated, orch_vars>>
    /\ UNCHANGED ext_vars

\* consolidate_prices and the response on their own: nothing is orchestrated
InitConsolidate ==
    /\ pc = "collect"
    /\ request = [well_formed |-> TRUE, product_name |-> TRUE, upc |-> FALSE]
    /\ env = [oxylabs_ok |-> FALSE]
    /\ google_urls = <<>>
    /\ task = NoTasks
    /\ yielded = {}
    /\ orch_pc = "idle"
    /\ all_results = <<>>
    /\ windows = {}
    /\ all_prices = <<>>
    /\ consolidated = <<>>
    /\ response = NoResponse
    /\ ExtIdle

NextConsolidate == CollectOffer \/ Consolidate \/ Respond

SpecConsolidate == InitConsolidate /\ [][NextConsolidate]_vars

\* the endpoint, from the request to the response
Init ==
    /\ pc = "request"
    /\ request \in Requests
    /\ env \in Environments
    /\ google_urls = <<>>
    /\ task = NoTasks
    /\ yielded = {}
    /\ orch_pc = "idle"
    /\ all_results = <<>>
    /\ windows = {}
    /\ all_prices = <<>>
    /\ consolidated = <<>>
    /\ response = NoResponse
    /\ ExtIdle

Next ==
    \/ Receive \/ OrchEarlyReturn \/ StartScraping \/ StartDirect
    \/ TaskFinish
    \/ AmazonCollect \/ AmazonTimeout
    \/ UrlYield \/ UrlsCollected \/ UrlTimeoutCaught \/ UrlTimeoutEscapes
    \/ DirectYield \/ DirectCollected \/ DirectTimeout
    \/ OrchReturn
    \/ DirectAmazonCollect \/ DirectAmazonTimeout
    \/ StoreYield \/ StoresCollected \/ StoresTimeout
    \/ DirectReturn
    \/ Consolidate \/ Respond

Spec == Init /\ [][Next]_vars

----------------------------------------------------------------------------
(* Reference notions used to state the properties *)

\* The retailer a display name stands for (the names of the model only).
RetailerOf ==
    "Walmart" :> "Walmart Mexico" @@
    "walmart.com.mx" :> "Walmart Mexico" @@
    "Walmart Mexico" :> "Walmart Mexico" @@
    "Superama" :> "Superama" @@
    "Amazon Mexico" :> "Amazon Mexico" @@
    "Chedraui" :> "Chedraui" @@
    "HEB" :> "HEB" @@
    "Farmacias Guadalajara" :> "Farmacias Guadalajara" @@
    "Soriana" :> "Soriana" @@
    "Farmacias del Ahorro" :> "Farmacias del Ahorro" @@
    "La Comer" :> "La Comer" @@
    "Sam's Club" :> "Sam's Club"

Retailers == {RetailerOf[n] : n \in DOMAIN RetailerOf}

\* an offer with a usable price: a truthy price that converts to a float
Usable(o) == Truthy(o.price) /\ PriceConverts(o.price)

\* positions of all_prices holding a usable offer of retailer r
UsableAt(r) ==
    {i \in 1..Len(all_prices) :
        Usable(all_prices[i]) /\ RetailerOf[all_prices[i].store] = r}

VerifiedAt(r) == {i \in UsableAt(r) : ~all_prices[i].estimated}
EstimatedAt(r) == {i \in UsableAt(r) : all_prices[i].estimated}

\* the offers of the class that wins for r: the verified ones if any
WinningAt(r) == IF VerifiedAt(r) # {} THEN VerifiedAt(r) ELSE EstimatedAt(r)

PriceAt(i) == PriceToFloat(all_prices[i].price)

Consolidated == pc = "consolidated"

\* the retailer of the offer at position i
RetailerAt(i) == RetailerOf[all_prices[i].store]

\* whether entry e was built from the offer at position i
BuiltFrom(e, i) ==
    /\ e.price = PriceAt(i)
    /\ e.url = all_prices[i].url
    /\ e.source_api = all_prices[i].source_api
    /\ e.estimated = all_prices[i].estimated

----------------------------------------------------------------------------
(* Properties of consolidate_prices *)

\* C1: when a store has at least one verified offer with a usable price, the
\* entry kept for the store is one of its verified offers, whatever the
\* prices of its estimated offers.
C1_VerifiedDisplacesEstimated ==
    Consolidated =>
        \A i \in 1..Len(all_prices) :
            (Usable(all_prices[i]) /\ ~all_prices[i].estimated) =>
                \E j \in 1..Len(consolidated) :
                    /\ consolidated[j].store = RetailerAt(i)
                    /\ ~consolidated[j].estimated
                    /\ \E k \in VerifiedAt(RetailerAt(i)) :
                        BuiltFrom(consolidated[j], k)

\* C1 witness: a store's estimated offer and a dearer verified offer of the
\* same store have been consolidated, and the verified one is the entry.
C1_Witness ==
    /\ pc = "consolidated"
    /\ \E r \in Retailers :
        \E i \in EstimatedAt(r), j \in VerifiedAt(r) :
            /\ PriceAt(i) < PriceAt(j)
            /\ \E n \in 1..Len(consolidated) :
                consolidated[n].store = r /\ BuiltFrom(consolidated[n], j)

\* C2: the price kept for a store is the minimum price among the offers of
\* the winning class of that store (verified if any, otherwise estimated).
C2_MinimumOfWinningClass ==
    Consolidated =>
        \A j \in 1..Len(consolidated) :
            LET r == consolidated[j].store
                winning == WinningAt(r)
            IN  /\ winning # {}
                /\ \E i \in winning : consolidated[j].price = PriceAt(i)
                /\ \A i \in winning : consolidated[j].price <= PriceAt(i)

\* C2 witness: a verified offer and then a cheaper verified offer of the
\* same store have been consolidated, and the entry has the cheaper price.
C2_Witness ==
    /\ pc = "consolidated"
    /\ \E r \in Retailers :
        \E j \in VerifiedAt(r), k \in VerifiedAt(r) :
            /\ j < k
            /\ PriceAt(k) < PriceAt(j)
            /\ \E n \in 1..Len(consolidated) :
                consolidated[n].store = r /\ consolidated[n].price = PriceAt(k)

\* the entries of a list name each retailer with a usable offer exactly once,
\* and name nothing else
OnePerRetailer(entries) ==
    /\ \A j, k \in 1..Len(entries) : entries[j].store = entries[k].store => j = k
    /\ \A j \in 1..Len(entries) :
        \E i \in 1..Len(all_prices) :
            Usable(all_prices[i]) /\ RetailerAt(i) = entries[j].store
    /\ \A i \in 1..Len(all_prices) :
        Usable(all_prices[i]) =>
            \E j \in 1..Len(entries) : entries[j].store = RetailerAt(i)

\* C4: the consolidated result, and the stores list of the response, hold
\* exactly one entry per canonical store with a usable offer, also when the
\* retailer was seen under several display names.
C4_OneEntryPerCanonicalStore ==
    /\ Consolidated => OnePerRetailer(consolidated)
    /\ (pc = "responded" /\ response.success) => OnePerRetailer(response.stores)

\* C4 witness: one retailer seen under two display names, answered as one
\* store.
C4_Witness ==
    /\ pc = "responded"
    /\ \E i, j \in UsableAt("Walmart Mexico") :
        all_prices[i].store # all_prices[j].store
    /\ response.count = 1

\* the orderings of a list
Orderings(n) ==
    {f \in [1..n -> 1..n] : \A a, b \in 1..n : f[a] = f[b] => a = b}

Reordered(items, f) == [i \in 1..Len(items) |-> items[f[i]]]

EntrySet(entries) == {entries[j] : j \in 1..Len(entries)}

\* C5 as claimed: every ordering of the same offers consolidates to the same
\* entries, compared on all their fields.
C5_OrderIndependent ==
    pc = "consolidated" =>
        \A f \in Orderings(Len(all_prices)) :
            EntrySet(consolidate_prices(Reordered(all_prices, f)))
                = EntrySet(consolidated)

\* C7 as claimed: every entry consolidate_prices returns has a price inside
\* the plausibility range.
C7_OutputPricesPlausible ==
    pc = "consolidated" =>
        \A j \in 1..Len(consolidated) :
            /\ Pesos(PlausibleMin) <= consolidated[j].price
            /\ consolidated[j].price <= Pesos(PlausibleMax)

----------------------------------------------------------------------------
(* Properties of the endpoint, from the request to the response *)

Answered == pc = "responded" /\ response.success

InDedupRange(price) ==
    Pesos(DedupMinPrice) <= price /\ price <= Pesos(DedupMaxPrice)

\* C3 as claimed: for every offer the orchestrator's tasks produced for a
\* store (with a price its range filter accepts), the response reports for
\* that store a price no higher than the offer's: the de-duplication never
\* keeps a dearer offer instead of a cheaper one.
C3_LowestVerifiedReported ==
    Answered =>
        \A i \in 1..Len(all_results) :
            InDedupRange(all_results[i].price) =>
                \E j \in 1..Len(response.stores) :
                    /\ response.stores[j].store = RetailerOf[all_results[i].store]
                    /\ response.stores[j].price <= all_results[i].price

\* C6: in every successful response, stores is sorted by non-decreasing
\* price, count is the length of stores, and lowest is the first element of
\* stores (a cheapest entry) when stores is not empty and null exactly when
\* it is empty.
C6_SortedCountLowest ==
    Answered =>
        LET stores == response.stores
        IN  /\ \A i, j \in 1..Len(stores) :
                i < j => stores[i].price <= stores[j].price
            /\ response.count = Len(stores)
            /\ response.has_lowest <=> stores # <<>>
            /\ response.has_lowest =>
                /\ response.lowest = stores[1]
                /\ \A j \in 1..Len(stores) :
                    response.lowest.price <= stores[j].price
            /\ ~response.has_lowest => response.lowest = NoEntry

\* C6 witness: a response of two stores or more whose order is not the order
\* in which the stores were consolidated.
C6_Witness ==
    /\ Answered
    /\ response.count >= 2
    /\ response.stores # consolidated
    /\ response.lowest.price < response.stores[response.count].price

\* C8 as claimed: once the collection has ended, by exhaustion or by its
\* deadline, the orchestrator returns without waiting for a task that is
\* still running: nothing holds it back at that point.
C8_ReturnsAtDeadline ==
    orch_pc \in {"shutdown", "d_shutdown"} => ExecutorJoined

\* C9 as claimed: whatever timed out, when the orchestrator has run its
\* tasks and returned, every task class has had its collection: the vendor
\* task, the discovered-URL tasks when there are any, and the direct-store
\* tasks.
C9_EveryClassCollected ==
    (orch_pc = "returned" /\ DOMAIN task # {}) =>
        /\ "amazon" \in windows
        /\ google_urls # <<>> => "urls" \in windows
        /\ "direct" \in windows

\* C10: a well-formed request is answered 200 with success = true, and when
\* the orchestrator returned no offer the result has stores = [], count = 0
\* and lowest = null.
C10_NoOfferIsSuccess ==
    (pc = "responded" /\ request.well_formed) =>
        /\ response.status = 200
        /\ response.success
        /\ all_prices = <<>> =>
            /\ response.stores = <<>>
            /\ response.count = 0
            /\ ~response.has_lowest
            /\ response.lowest = NoEntry

\* C10 witness: tasks were submitted, one of them found an offer but timed
\* out of its collection, nothing was collected, and the request has been
\* answered with an empty successful result.
C10_Witness ==
    /\ pc = "responded"
    /\ request.well_formed
    /\ \E t \in DOMAIN task : task[t].result # <<>>
    /\ all_results = <<>>
    /\ response.status = 200
    /\ response.count = 0

----------------------------------------------------------------------------
(* Properties of check_price (app.py) *)

\* a request check_price accepts: a body, a query or a barcode, a shopping
\* search
ValidCheckPriceRequest ==
    /\ cp_request.body
    /\ Strip(cp_request.query) # <<>> \/ _clean_upc(cp_request.upc) # <<>>
    /\ cp_request.search_type = "shopping"

\* C11 as claimed: a valid request is answered 200 whatever the search
\* provider did (missing credentials, non-200 status, timeout, transport
\* error), never 5xx.
C11_ProviderFailureIsNot5xx ==
    (cp_pc = "responded" /\ ValidCheckPriceRequest) => cp_response.status = 200

----------------------------------------------------------------------------
(* Properties of the streaming endpoint *)

TerminalTypes == {"complete", "error"}

EventsOfType(t) == {i \in 1..Len(events) : events[i].type = t}

\* C12: the events of a run end with exactly one terminal event (complete
\* or error, never both) and nothing follows it; every earlier event is a
\* status or product event; a complete event is preceded by exactly one
\* product event.
C12_OneTerminalEventLast ==
    /\ \A i \in 1..Len(events) :
        IF events[i].type \in TerminalTypes
        THEN i = Len(events) /\ st_pc = "done"
        ELSE events[i].type \in {"status", "product"}
    /\ st_pc = "done" =>
        /\ events # <<>>
        /\ events[Len(events)].type \in TerminalTypes
        /\ Cardinality(EventsOfType("complete") \cup EventsOfType("error")) = 1
    /\ EventsOfType("complete") # {} =>
        /\ Cardinality(EventsOfType("product")) = 1
        /\ \A i \in EventsOfType("product"), j \in EventsOfType("complete") : i < j

\* C12 witness: a run that analysed an image, looked the barcode up and
\* ended with a complete event reporting two stores.
C12_Witness ==
    /\ st_pc = "done"
    /\ events[Len(events)].type = "complete"
    /\ events[Len(events)].count = 2
    /\ Len(events) >= 8

----------------------------------------------------------------------------
(* Properties of the scoring function *)

\* a fraction in [0, 1]
InUnitInterval(f) == f.den > 0 /\ 0 <= f.num /\ f.num <= f.den

SearchKeywords == normalize_product_name(search_name)
FoundKeywords == normalize_product_name(found_name)

\* C13: whatever the two texts (empty, or without keywords), the score is
\* in [0, 1], and so are the fixed scores attached to offers elsewhere in
\* the pipeline.
C13_ScoreInUnitInterval ==
    /\ sc_pc \in {"scored", "both"} => InUnitInterval(match_score)
    /\ sc_pc = "both" => InUnitInterval(reverse_score)
    /\ InUnitInterval(LastResortScore)
    /\ InUnitInterval(NoKeywordsScore)
    /\ \A percent \in TaskScores : 0 <= percent /\ percent <= 100

\* C13 witness: two different texts with the same keywords have been scored
\* 1, the bonus having met its cap.
C13_Witness ==
    /\ sc_pc = "scored"
    /\ search_name # found_name
    /\ SeqRange(SearchKeywords) = SeqRange(FoundKeywords)
    /\ SearchKeywords # <<>>
    /\ match_score.num = match_score.den

\* C14 as claimed: with keywords on both sides the score is the Jaccard
\* similarity of the two keyword sets, plus 0.2 capped at 1 exactly when the
\* first keyword of the query, in order of appearance, is a keyword of the
\* candidate.
C14_JaccardPlusFirstKeywordBonus ==
    (sc_pc = "scored" /\ SearchKeywords # <<>> /\ FoundKeywords # <<>>) =>
        LET sk == SeqRange(SearchKeywords)
            fk == SeqRange(FoundKeywords)
            jaccard == Fraction(Cardinality(sk \cap fk), Cardinality(sk \cup fk))
        IN  IF SearchKeywords[1] \in fk
            THEN FractionEq(match_score, WithBonus(jaccard))
            ELSE FractionEq(match_score, jaccard)

\* C15: the scoring is not symmetric: a query that is not empty but has no
\* keyword scores 0.5 against a title with keywords, while that title, as the
\* query, scores 0 against it.
C15_NotSymmetric ==
    (/\ sc_pc = "both"
     /\ search_name # <<>>
     /\ SearchKeywords = <<>>
     /\ FoundKeywords # <<>>) =>
        /\ FractionEq(match_score, Fraction(1, 2))
        /\ FractionEq(reverse_score, Fraction(0, 1))
        /\ ~FractionEq(match_score, reverse_score)

\* C15 witness: a pair of texts scored both ways with different scores.
C15_Witness ==
    /\ sc_pc = "both"
    /\ search_name # <<>>
    /\ SearchKeywords = <<>>
    /\ FoundKeywords # <<>>
    /\ ~FractionEq(match_score, reverse_score)

----------------------------------------------------------------------------
(* Properties of the extraction cascade *)

\* the strategies up to and including the one named
UpTo(name) == {Strategies[k] : k \in 1..StrategyIndex(name)}

\* C16 as claimed: every pair the cascade returns, whichever strategy
\* produced it, has a price within the plausibility bound 5 to 50,000.
C16_ReturnedPricesPlausible ==
    ex_pc = "returned" =>
        \A i \in 1..Len(products) :
            InRange(products[i].price, PlausibleMin, PlausibleMax)

\* C17: the strategies run in their fixed order and the first that produces
\* a pair wins: the returned pairs all come from that strategy, and no later
\* strategy has been consulted.
C17_FirstProducingStrategyWins ==
    /\ ex_pc \in {Strategies[k] : k \in 1..Len(Strategies)} =>
        /\ consulted = UpTo(ex_pc) \ {ex_pc}
        /\ products = <<>>
    /\ ex_pc = "returned" =>
        /\ \A i, j \in 1..Len(products) : products[i].title = products[j].title
        /\ products # <<>> => consulted = UpTo(products[1].title)
        /\ products = <<>> => consulted = UpTo("html")

\* C17 witness: the field scan won on a page whose JSON-LD block is not
\* JSON and on which the generic scan and the markup would find pairs too.
C17_Witness ==
    /\ ex_pc = "returned"
    /\ html.jsonld.shape = "invalid_json"
    /\ products # <<>>
    /\ products[1].title = "render"
    /\ html.generic.shape = "product"
    /\ html.html_name.shape = "product"

\* C18 as claimed: for every page the cascade returns a list and never
\* raises, also when a JSON-LD block is valid JSON whose item is no object.
C18_NeverRaises ==
    ex_pc # "raised"

----------------------------------------------------------------------------
(* Properties of the barcode *)

DigitsOnly(text) == _clean_upc(text) = text

\* C19 as claimed: the barcode is stripped of every non-digit character
\* before use: the term of the barcode search is the digits of the barcode
\* followed by " precio mexico", and the barcode of the product summary
\* consists of digits only, whatever the request supplied.
C19_BarcodeDigitsOnly ==
    /\ bc_pc \in {"searched", "responded"} /\ search_term # <<>> =>
          search_term = _clean_upc(bc_request.upc) \o PrecioMexico
    /\ bc_pc = "responded" => DigitsOnly(result_product.upc)

----------------------------------------------------------------------------
(* Properties of the selection of one offer per page *)

\* the price range a scraper takes for plausible
PlausibleFor(scraper, price) ==
    IF scraper = "url"
    THEN InRange(price, UrlMinPrice, UrlMaxPrice)
    ELSE InRange(price, StoreMinPrice, StoreMaxPrice)

\* C20 as claimed: in every per-page selection (vendor search, direct
\* known-store page, search-discovered page), when the page has a
\* plausible-priced candidate that is not a multipack, the offer selected
\* for the page, if any, is not a multipack.
C20_UnitPreferredOverMultipack ==
    (/\ sel_pc \in {"amazon", "store", "url"}
     /\ \E i \in 1..Len(page.candidates) :
           /\ PlausibleFor(sel_pc, page.candidates[i].price)
           /\ ~is_multipack(page.candidates[i].title))
    => \A k \in 1..Len(selected) : ~is_multipack(selected[k].title)

\* the scored candidates a scraper chooses among: those within its price
\* range that reach its threshold, and for the vendor search the units
\* among them when there are any
Considered(scraper) ==
    LET scored == Scored(page.candidates)
        plausible == SelectSeq(scored, LAMBDA p : PlausibleFor(scraper, p.price))
        reaching(threshold) ==
            SelectSeq(plausible, LAMBDA p : FractionLeq(threshold, p.match_score))
    IN  IF scraper = "amazon" THEN PreferUnits(reaching(min_match_score))
        ELSE IF scraper = "store" THEN reaching(min_match_score)
        ELSE reaching(UrlMinScore)

\* C21 as claimed: in every per-page selection the selected offer has the
\* highest match score among the candidates considered, and among those
\* with that score the lowest price, whatever the order of the page.
C21_BestScoreThenLowestPrice ==
    sel_pc \in {"amazon", "store", "url"} =>
        LET considered == Considered(sel_pc)
        IN  \A k \in 1..Len(selected), i \in 1..Len(considered) :
                /\ FractionLeq(considered[i].match_score, selected[k].match_score)
                /\ FractionEq(considered[i].match_score, selected[k].match_score)
                      => selected[k].price <= considered[i].price

\* the thresholds the claim names for the three paths
DiscoveredPageThreshold == Fraction(3, 10)
DirectStoreThreshold == Fraction(1, 4)
LastResortThreshold == Fraction(1, 5)

\* the offer is the one the last-resort extractor made for the page
IsLastResort(offer) ==
    page.fallback_price # 0 /\ offer = FallbackOffer(page.fallback_price)

\* C22 as claimed: every accepted offer has a match score at least the
\* threshold of its path: 0.3 from a search-discovered page, 0.25 from a
\* direct known-store page, 0.2 from the last-resort extractor.
C22_ScoreMeetsPathThreshold ==
    \A k \in 1..Len(selected) :
        \/ IsLastResort(selected[k])
              /\ FractionLeq(LastResortThreshold, selected[k].match_score)
        \/ sel_pc = "url"
              /\ FractionLeq(DiscoveredPageThreshold, selected[k].match_score)
        \/ sel_pc = "store"
              /\ FractionLeq(DirectStoreThreshold, selected[k].match_score)
        \/ sel_pc = "amazon"

----------------------------------------------------------------------------
(* Properties of discovery and submission *)

\* a task submitted for the store: a direct task for it, or the task of a
\* scraped URL whose store name carries the store's name
CoveredByTask(k) ==
    \/ StoreTask(k) \in dp_tasks
    \/ \E t \in dp_tasks :
          /\ t.kind = "url"
          /\ Contains(Lower(Spelling[dp_urls[t.n].store]),
                      Lower(Spelling[MEXICAN_STORES[k].name]))

\* C23 as claimed: whenever discovery returned a URL, every priority store
\* has a task: a task for one of its URLs among the first 15, or a direct
\* task; a store whose URLs all lie beyond the cap is not left without.
C23_PriorityStoreHasTask ==
    dp_pc = "submitted" /\ dp_mode = "search_prices_oxylabs" =>
        \A k \in SeqRange(priority_stores) : CoveredByTask(k)

\* C24: when no pass returned a URL the tasks are those of the direct mode:
\* the vendor task and one task per store of the fixed list, and no task
\* for a discovered URL; when a pass returned a URL the direct mode is not
\* used.
C24_DirectModeOnlyWithoutUrls ==
    dp_pc = "submitted" =>
        /\ dp_urls = <<>> <=> dp_mode = "search_prices_direct"
        /\ dp_urls # <<>> <=> dp_mode = "search_prices_oxylabs"
        /\ dp_mode = "search_prices_direct" =>
              /\ AmazonTask \in dp_tasks
              /\ \A k \in SeqRange(universal_stores) : StoreTask(k) \in dp_tasks
              /\ \A t \in dp_tasks :
                    \/ t = AmazonTask
                    \/ t.kind = "store" /\ t.store \in SeqRange(universal_stores)
              /\ Cardinality(dp_tasks) = Len(universal_stores) + 1

\* C24 witness: a name and a barcode were known, both passes ran and found
\* nothing, and the direct mode submitted its tasks.
C24_Witness ==
    /\ dp_pc = "submitted"
    /\ searches = <<"upc", "name">>
    /\ dp_urls = <<>>
    /\ dp_mode = "search_prices_direct"

\* the candidates gathered by the barcode pass
AfterUpcPass == IF dp_request.upc THEN dp_found.upc ELSE <<>>

\* C25: the barcode pass runs first and only when a barcode is known; the
\* name pass runs after it exactly when a name is known and the candidates
\* so far are fewer than 10; the combined list holds no URL twice.
C25_PassesOrderedAndDeduplicated ==
    /\ searches \in {<<>>, <<"upc">>, <<"name">>, <<"upc", "name">>}
    /\ dp_pc \in {"upc_pass_done", "discovered", "submitted"} =>
          ("upc" \in SeqRange(searches) <=> dp_request.upc)
    /\ dp_pc \in {"discovered", "submitted"} =>
          ("name" \in SeqRange(searches) <=>
              dp_request.product_name /\ Len(AfterUpcPass) < MinCandidates)
    /\ "upc" \in SeqRange(searches) => dp_request.upc
    /\ Unique(dp_urls)

\* C25 witness: the barcode pass found fewer than 10 candidates, the name
\* pass ran and returned a URL the barcode pass had found already.
C25_Witness ==
    /\ dp_pc = "discovered"
    /\ searches = <<"upc", "name">>
    /\ dp_found.upc # <<>>
    /\ \E i \in 1..Len(dp_found.name), j \in 1..Len(dp_found.upc) :
          dp_found.name[i].url = dp_found.upc[j].url

----------------------------------------------------------------------------
(* Properties of the AI adapters *)

\* C26 as claimed: an offer of an adapter with live retrieval (Claude with
\* web search, Perplexity) is treated as verified by the consolidation only
\* when the reply is grounded in retrieved sources; every offer of the
\* Gemini adapter is tagged estimated.
C26_VerifiedOnlyWhenGrounded ==
    /\ ad_pc = "consolidated" =>
          \A i \in 1..Len(ad_consolidated) :
              ad_consolidated[i].source_api \in {"claude", "perplexity"}
                  /\ ~ad_consolidated[i].estimated
              => reply.grounded
    /\ \A i \in 1..Len(ad_prices) :
          ad_prices[i].source_api = "gemini"
              => ad_prices[i].has_estimated /\ ad_prices[i].estimated

----------------------------------------------------------------------------
(* Properties of the provider calls *)

\* C27 as claimed: every provider call goes through the retrying session,
\* which makes at most 1 + 2 attempts and retries only after a 5xx response,
\* never after a 4xx response or a parse failure.
C27_EveryCallThroughRetryLayer ==
    /\ ht_pc # "idle" => UsesSession(http_call.caller) /\ http_call.session
    /\ Len(attempts) <= RetryTotal + 1
    /\ \A i \in 1..(Len(attempts) - 1) : attempts[i] = "5xx"

----------------------------------------------------------------------------
(* Properties of the tasks and adapters as callees *)

----------------------------------------------------------------------------
(* Properties of consolidate_prices over its own entries *)

\* C29 as claimed: consolidation is idempotent. Consolidating the entries of
\* consolidate_prices(xs) again yields the same entries (store keys, prices,
\* urls, source tags, estimated flags), and every canonical store name is
\* its own store key.
C29_ConsolidationIdempotent ==
    /\ rc_pc = "twice" => rc_twice = rc_once
    /\ \A i \in 1..Len(StoreKeywords) :
          StoreKeywords[i].key \in AllStoreNames
             => store_key_of[StoreKeywords[i].key] = StoreKeywords[i].key

----------------------------------------------------------------------------
(* Properties of search_products_in_database *)

\* C30 as claimed: results are fetched only after the query was observed in
\* state SUCCEEDED; a query that is FAILED or CANCELLED, or that has not
\* reached SUCCEEDED after the 30 status checks, makes the lookup return the
\* empty list without fetching; the loop ends after at most 30 checks.
C30_FetchOnlyAfterSucceeded ==
    /\ fetched \/ db_pc = "fetching" => observed = "SUCCEEDED"
    /\ db_pc = "returned" /\ observed # "SUCCEEDED"
          => db_result = "empty" /\ ~fetched
    /\ polls <= MaxPolls

====
